---- MODULE Spec2Model ----
(***************************************************************************)
(* DocuForge template core: condition lexer / parser / evaluator,          *)
(* variable resolver, value coercion and the template directive processor. *)
(*                                                                         *)
(* Text is a sequence of lexemes.  A lexeme is a TLA+ string standing for  *)
(* a piece of text that the scanners treat as a unit of one character      *)
(* class: a single character ("a", "=", " "), a run of letters ("Hello",   *)
(* "section"), or one of the two-character template delimiters ("{%").     *)
(* Positions are the 0-based positions of the Python code; text[pos + 1]   *)
(* is the lexeme at position pos.                                          *)
(*                                                                         *)
(* Python values are tagged records:                                       *)
(*   None [t |-> "none"], bool [t, b], int [t, n], str [t, s],             *)
(*   list [t, items], dict [t, d] (d a function from key text to value),   *)
(*   bound method [t, self, name].                                         *)
(***************************************************************************)
EXTENDS Integers, Sequences, FiniteSets, TLC

\* ------------------------------------------------------------------------
\* Bounds of the model
\* ------------------------------------------------------------------------
MaxCalls == 2

\* ------------------------------------------------------------------------
\* Character classes (str.isspace, str.isdigit, str.isalpha, str.isalnum)
\* ------------------------------------------------------------------------
SpaceChars == {" ", "\n"}

DigitChars == {"0", "1", "2", "3", "4", "5", "6", "7", "8", "9"}

PunctChars == {"{{", "}}", "{%", "%}", "(", ")", "=", "!", "<", ">", ".", "_",
               "'", "\"", "\\", "[", "]", ":", ",", "$", "&"}

IsSpace(c) == c \in SpaceChars

IsDigit(c) == c \in DigitChars

IsAlpha(c) == c \notin (SpaceChars \cup DigitChars \cup PunctChars)

IsAlnum(c) == IsAlpha(c) \/ IsDigit(c)

\* \w of the regular expressions
IsWord(c) == IsAlnum(c) \/ c = "_"

DigitVal(c) ==
    CASE c = "0" -> 0 [] c = "1" -> 1 [] c = "2" -> 2 [] c = "3" -> 3
      [] c = "4" -> 4 [] c = "5" -> 5 [] c = "6" -> 6 [] c = "7" -> 7
      [] c = "8" -> 8 [] c = "9" -> 9

\* str.lower, lexeme by lexeme
LowerChar(c) ==
    CASE c = "A" -> "a" [] c = "N" -> "n" [] c = "D" -> "d" [] c = "O" -> "o"
      [] c = "R" -> "r" [] c = "T" -> "t" [] c = "F" -> "f" [] c = "L" -> "l"
      [] c = "S" -> "s" [] c = "E" -> "e" [] c = "U" -> "u"
      [] OTHER -> c

Lower(s) == [i \in 1..Len(s) |-> LowerChar(s[i])]

RECURSIVE LStrip(_)
LStrip(s) == IF s # <<>> /\ IsSpace(Head(s)) THEN LStrip(Tail(s)) ELSE s

RECURSIVE RStrip(_)
RStrip(s) ==
    IF s # <<>> /\ IsSpace(s[Len(s)]) THEN RStrip(SubSeq(s, 1, Len(s) - 1)) ELSE s

\* str.strip()
Strip(s) == RStrip(LStrip(s))

\* ------------------------------------------------------------------------
\* Python values
\* ------------------------------------------------------------------------
NoneV == [t |-> "none"]

BoolV(b) == [t |-> "bool", b |-> b]

IntV(n) == [t |-> "int", n |-> n]

\* A float with a decimal expansion of at most 15 significant digits: the
\* sign, the digits before the point without leading zeros (<<"0">> for
\* none) and the digits after it without trailing zeros
FloatV(neg, whole, frac) == [t |-> "float", neg |-> neg, whole |-> whole, frac |-> frac]

StrV(s) == [t |-> "str", s |-> s]

ListV(items) == [t |-> "list", items |-> items]

DictV(d) == [t |-> "dict", d |-> d]

MethodV(self, name) == [t |-> "method", self |-> self, name |-> name]

\* A bytes object of one byte
BytesV(n) == [t |-> "bytes", n |-> n]

EmptyDict == [k \in {} |-> NoneV]

\* bool(value)
Truthy(v) ==
    CASE v.t = "none" -> FALSE
      [] v.t = "bool" -> v.b
      [] v.t = "int" -> v.n # 0
      [] v.t = "float" -> ~(v.whole = <<"0">> /\ v.frac = <<>>)
      [] v.t = "str" -> v.s # <<>>
      [] v.t = "list" -> v.items # <<>>
      [] v.t = "dict" -> DOMAIN v.d # {}
      [] OTHER -> TRUE

IsNumeric(v) == v.t \in {"bool", "int", "float"}

RECURSIVE NatToDigits(_)
NatToDigits(n) ==
    IF n < 10 THEN <<ToString(n)>> ELSE Append(NatToDigits(n \div 10), ToString(n % 10))

\* bool is a subclass of int: True is 1, False is 0
IntOf(v) == IF v.t = "bool" THEN (IF v.b THEN 1 ELSE 0) ELSE v.n

\* A number as sign, digits before the point and digits after it
NumOf(v) ==
    IF v.t = "float" THEN [neg |-> v.neg, whole |-> v.whole, frac |-> v.frac]
    ELSE [neg |-> IntOf(v) < 0,
          whole |-> NatToDigits(IF IntOf(v) < 0 THEN -IntOf(v) ELSE IntOf(v)),
          frac |-> <<>>]

\* The digit at place i of a digit sequence read as padded with zeros
DigitAt(ds, i) == IF i <= Len(ds) THEN DigitVal(ds[i]) ELSE 0

\* |a| < |b| for two numbers
MagLess(a, b) ==
    IF Len(a.whole) # Len(b.whole) THEN Len(a.whole) < Len(b.whole)
    ELSE LET x == a.whole \o a.frac
             y == b.whole \o b.frac
             differ == {i \in 1..(Len(x) + Len(y)) : DigitAt(x, i) # DigitAt(y, i)}
         IN differ # {}
            /\ \E i \in differ :
                  /\ \A j \in differ : i <= j
                  /\ DigitAt(x, i) < DigitAt(y, i)

\* a < b for two numbers
NumLess(a, b) ==
    IF a.neg # b.neg THEN a.neg
    ELSE IF a.neg THEN MagLess(b, a) ELSE MagLess(a, b)

\* left == right
RECURSIVE PyEq(_, _)
PyEq(a, b) ==
    IF IsNumeric(a) /\ IsNumeric(b) THEN NumOf(a) = NumOf(b)
    ELSE IF a.t # b.t THEN FALSE
    ELSE CASE a.t = "none" -> TRUE
           [] a.t = "str" -> a.s = b.s
           [] a.t = "list" ->
                /\ Len(a.items) = Len(b.items)
                /\ \A i \in 1..Len(a.items) : PyEq(a.items[i], b.items[i])
           [] a.t = "dict" ->
                /\ DOMAIN a.d = DOMAIN b.d
                /\ \A k \in DOMAIN a.d : PyEq(a.d[k], b.d[k])
           [] OTHER -> a = b

\* The digits and letters in code point order
Alphabet ==
    <<"0", "1", "2", "3", "4", "5", "6", "7", "8", "9",
      "A", "B", "C", "D", "E", "F", "G", "H", "I", "J", "K", "L", "M",
      "N", "O", "P", "Q", "R", "S", "T", "U", "V", "W", "X", "Y", "Z",
      "a", "b", "c", "d", "e", "f", "g", "h", "i", "j", "k", "l", "m",
      "n", "o", "p", "q", "r", "s", "t", "u", "v", "w", "x", "y", "z">>

\* The place of a character in that order (0 for any other lexeme: the
\* strings the conditions of the model order are made of digits and letters)
CodeRank(c) ==
    IF \E i \in 1..Len(Alphabet) : Alphabet[i] = c
    THEN CHOOSE i \in 1..Len(Alphabet) : Alphabet[i] = c
    ELSE 0

\* x < y for two strings: the first differing character decides, a proper
\* prefix is smaller
StrLess(x, y) ==
    LET differ == {i \in 1..Len(x) : i > Len(y) \/ x[i] # y[i]} IN
    IF differ = {} THEN Len(x) < Len(y)
    ELSE LET i == CHOOSE j \in differ : \A k \in differ : j <= k
         IN i <= Len(y) /\ CodeRank(x[i]) < CodeRank(y[i])

\* left < right is defined for two numbers and for two strings; every other
\* pairing of the values a condition of the model compares raises TypeError
Orderable(a, b) == (IsNumeric(a) /\ IsNumeric(b)) \/ (a.t = "str" /\ b.t = "str")

\* left < right for an orderable pair
Less(a, b) == IF a.t = "str" THEN StrLess(a.s, b.s) ELSE NumLess(NumOf(a), NumOf(b))

\* ------------------------------------------------------------------------
\* ConditionLexer
\* ------------------------------------------------------------------------
Token(type, value, position) == [type |-> type, value |-> value, position |-> position]

\* ConditionLexer.KEYWORDS
KEYWORDS == {<<"a", "n", "d">>, <<"o", "r">>, <<"n", "o", "t">>,
             <<"t", "r", "u", "e">>, <<"f", "a", "l", "s", "e">>,
             <<"n", "u", "l", "l">>, <<"n", "o", "n", "e">>}

KeywordType(lower) ==
    CASE lower = <<"a", "n", "d">> -> "AND"
      [] lower = <<"o", "r">> -> "OR"
      [] lower = <<"n", "o", "t">> -> "NOT"
      [] lower = <<"t", "r", "u", "e">> -> "BOOLEAN"
      [] lower = <<"f", "a", "l", "s", "e">> -> "BOOLEAN"
      [] lower = <<"n", "u", "l", "l">> -> "NULL"
      [] lower = <<"n", "o", "n", "e">> -> "NULL"

\* self.current_char at position pos: None (here "") past the end
CurrentChar(text, pos) == IF pos < Len(text) THEN text[pos + 1] ELSE ""

RECURSIVE skip_whitespace(_, _)
skip_whitespace(text, pos) ==
    IF pos < Len(text) /\ IsSpace(text[pos + 1])
    THEN skip_whitespace(text, pos + 1)
    ELSE pos

\* int(result) for a run of decimal digits
RECURSIVE DigitsToInt(_)
DigitsToInt(ds) ==
    IF ds = <<>> THEN 0
    ELSE 10 * DigitsToInt(SubSeq(ds, 1, Len(ds) - 1)) + DigitVal(ds[Len(ds)])

\* ds without its leading zeros, and without its trailing zeros
DropLeadingZeros(ds) ==
    LET nonzero == {i \in 1..Len(ds) : ds[i] # "0"} IN
    IF nonzero = {} THEN <<>>
    ELSE SubSeq(ds, CHOOSE i \in nonzero : \A j \in nonzero : i <= j, Len(ds))

DropTrailingZeros(ds) ==
    LET nonzero == {i \in 1..Len(ds) : ds[i] # "0"} IN
    IF nonzero = {} THEN <<>>
    ELSE SubSeq(ds, 1, CHOOSE i \in nonzero : \A j \in nonzero : i >= j)

\* float(result) for digits with one "." among them
ParseFloat(result) ==
    LET dot == CHOOSE i \in 1..Len(result) : result[i] = "."
        whole == DropLeadingZeros(SubSeq(result, 1, dot - 1))
    IN FloatV(FALSE, IF whole = <<>> THEN <<"0">> ELSE whole,
              DropTrailingZeros(SubSeq(result, dot + 1, Len(result))))

RECURSIVE read_number_loop(_, _, _, _)
read_number_loop(text, pos, result, has_dot) ==
    LET c == CurrentChar(text, pos) IN
    IF pos < Len(text) /\ (IsDigit(c) \/ c = ".")
    THEN IF c = "." /\ has_dot
         THEN [result |-> result, has_dot |-> has_dot, pos |-> pos]
         ELSE read_number_loop(text, pos + 1, Append(result, c), has_dot \/ c = ".")
    ELSE [result |-> result, has_dot |-> has_dot, pos |-> pos]

read_number(text, pos) ==
    LET r == read_number_loop(text, pos, <<>>, FALSE)
        value == IF r.has_dot THEN ParseFloat(r.result) ELSE IntV(DigitsToInt(r.result))
    IN [tok |-> Token("NUMBER", value, pos), pos |-> r.pos]

RECURSIVE read_string_loop(_, _, _, _)
read_string_loop(text, pos, quote_char, result) ==
    LET c == CurrentChar(text, pos) IN
    IF pos < Len(text) /\ c # quote_char
    THEN IF c = "\\" /\ pos + 1 < Len(text)
         THEN read_string_loop(text, pos + 2, quote_char, Append(result, text[pos + 2]))
         ELSE read_string_loop(text, pos + 1, quote_char, Append(result, c))
    ELSE [result |-> result, pos |-> pos]

read_string(text, pos, quote_char) ==
    LET r == read_string_loop(text, pos + 1, quote_char, <<>>)
    IN [tok |-> Token("STRING", StrV(r.result), pos), pos |-> r.pos + 1]

RECURSIVE read_identifier_loop(_, _, _)
read_identifier_loop(text, pos, result) ==
    LET c == CurrentChar(text, pos) IN
    IF pos < Len(text) /\ (IsAlnum(c) \/ c \in {"_", "."})
    THEN read_identifier_loop(text, pos + 1, Append(result, c))
    ELSE [result |-> result, pos |-> pos]

read_identifier(text, pos) ==
    LET r == read_identifier_loop(text, pos, <<>>)
        lower == Lower(r.result)
        tok == IF lower \in KEYWORDS
               THEN IF KeywordType(lower) = "BOOLEAN"
                    THEN Token("BOOLEAN", BoolV(lower = <<"t", "r", "u", "e">>), pos)
                    ELSE Token(KeywordType(lower), StrV(r.result), pos)
               ELSE Token("VARIABLE", StrV(r.result), pos)
    IN [tok |-> tok, pos |-> r.pos]

TwoChar(text, pos) ==
    IF pos + 1 < Len(text) THEN <<text[pos + 1], text[pos + 2]>> ELSE <<>>

\* One call of get_next_token from position pos: the token and the position
\* after it, or err = TRUE for the lexical ConditionEvaluationError.
get_next_token(text, pos0) ==
    LET pos == skip_whitespace(text, pos0)
        c == CurrentChar(text, pos)
        two == TwoChar(text, pos)
        Ok(r) == [err |-> FALSE, tok |-> r.tok, pos |-> r.pos]
        Op(type, chars, n) ==
            [err |-> FALSE, tok |-> Token(type, StrV(chars), pos), pos |-> pos + n]
    IN  IF pos >= Len(text)
        THEN [err |-> FALSE, tok |-> Token("EOF", NoneV, pos), pos |-> pos]
        ELSE IF IsDigit(c) THEN Ok(read_number(text, pos))
        ELSE IF c \in {"\"", "'"} THEN Ok(read_string(text, pos, c))
        ELSE IF IsAlpha(c) \/ c = "_" THEN Ok(read_identifier(text, pos))
        ELSE IF two = <<"=", "=">> THEN Op("EQ", two, 2)
        ELSE IF two = <<"!", "=">> THEN Op("NEQ", two, 2)
        ELSE IF two = <<"<", "=">> THEN Op("LTE", two, 2)
        ELSE IF two = <<">", "=">> THEN Op("GTE", two, 2)
        ELSE IF c = "<" THEN Op("LT", <<c>>, 1)
        ELSE IF c = ">" THEN Op("GT", <<c>>, 1)
        ELSE IF c = "(" THEN Op("LPAREN", <<c>>, 1)
        ELSE IF c = ")" THEN Op("RPAREN", <<c>>, 1)
        ELSE [err |-> TRUE, tok |-> Token("ERROR", StrV(<<c>>), pos), pos |-> pos]

\* tokenize leaving the loop at end-of-input before the token is appended
RECURSIVE tokenize_loop_eof_dropped(_, _, _)
tokenize_loop_eof_dropped(text, pos, tokens) ==
    LET r == get_next_token(text, pos) IN
    IF r.err THEN [err |-> TRUE, tokens |-> tokens]
    ELSE IF r.tok.type = "EOF" THEN [err |-> FALSE, tokens |-> tokens]
    ELSE tokenize_loop_eof_dropped(text, r.pos, Append(tokens, r.tok))

RECURSIVE tokenize_loop(_, _, _)
tokenize_loop(text, pos, tokens) ==
    LET r == get_next_token(text, pos) IN
    IF r.err THEN [err |-> TRUE, tokens |-> tokens]
    ELSE IF r.tok.type = "EOF" THEN [err |-> FALSE, tokens |-> Append(tokens, r.tok)]
    ELSE tokenize_loop(text, r.pos, Append(tokens, r.tok))

\* ConditionLexer(text).tokenize()
tokenize(text) == tokenize_loop(text, 0, <<>>)

\* ------------------------------------------------------------------------
\* ConditionEvaluator
\* ------------------------------------------------------------------------
\* A parse step returns the value, the parser position after it, and the
\* exception it raised ("none" when it returned).
Ret(val, pos) == [exc |-> "none", val |-> val, pos |-> pos]

Raise(exc, pos) == [exc |-> exc, val |-> NoneV, pos |-> pos]

\* self.current_token: _advance leaves it on the last token once pos runs
\* past the end of the token list
current_token(tokens, pos) ==
    IF pos < Len(tokens) THEN tokens[pos + 1] ELSE tokens[Len(tokens)]

SplitDot(name) ==
    LET RECURSIVE split(_, _, _)
        split(rest, cur, acc) ==
            IF rest = <<>> THEN Append(acc, cur)
            ELSE IF Head(rest) = "." THEN split(Tail(rest), <<>>, Append(acc, cur))
            ELSE split(Tail(rest), Append(cur, Head(rest)), acc)
    IN split(name, <<>>, <<>>)

\* Attribute names of list objects that the model's names can reach:
\* zero-argument mutators, a zero-argument copy and one method that
\* requires an argument.
ListAttrs == {<<"pop">>, <<"clear">>, <<"reverse">>, <<"copy">>, <<"append">>}

\* and of int objects: to_bytes, whose arguments all have defaults
IntAttrs == {<<"to", "_", "bytes">>}

\* hasattr(value, part) for the values of the model
HasAttr(value, part) ==
    \/ value.t = "list" /\ part \in ListAttrs
    \/ value.t = "int" /\ part \in IntAttrs

\* _resolve_variable giving the empty string for a key that is missing
RECURSIVE resolve_variable_walk_missing_empty(_, _)
resolve_variable_walk_missing_empty(value, parts) ==
    IF parts = <<>> THEN value
    ELSE LET part == Head(parts) IN
         IF value.t = "dict"
         THEN IF part \notin DOMAIN value.d THEN StrV(<<>>)
              ELSE resolve_variable_walk_missing_empty(value.d[part], Tail(parts))
         ELSE IF HasAttr(value, part)
         THEN resolve_variable_walk_missing_empty(MethodV(value, part), Tail(parts))
         ELSE NoneV

\* ConditionEvaluator._resolve_variable: getattr without a call
RECURSIVE resolve_variable_walk(_, _)
resolve_variable_walk(value, parts) ==
    IF parts = <<>> THEN value
    ELSE LET part == Head(parts) IN
         IF value.t = "dict"
         THEN IF part \notin DOMAIN value.d THEN NoneV
              ELSE resolve_variable_walk(value.d[part], Tail(parts))
         ELSE IF HasAttr(value, part)
         THEN resolve_variable_walk(MethodV(value, part), Tail(parts))
         ELSE NoneV

resolve_variable(name, context) == resolve_variable_walk(context, SplitDot(name))

IsCompOp(type) == type \in {"EQ", "NEQ", "LT", "LTE", "GT", "GTE"}

\* left OP right of _parse_comparison; "TypeError" when Python refuses to
\* order the operands
Compare(op, left, right) ==
    IF op = "EQ" THEN [exc |-> "none", val |-> BoolV(PyEq(left, right))]
    ELSE IF op = "NEQ" THEN [exc |-> "none", val |-> BoolV(~PyEq(left, right))]
    ELSE IF ~Orderable(left, right) THEN [exc |-> "TypeError", val |-> NoneV]
    ELSE [exc |-> "none",
          val |-> BoolV(CASE op = "LT" -> Less(left, right)
                          [] op = "LTE" -> ~Less(right, left)
                          [] op = "GT" -> Less(right, left)
                          [] op = "GTE" -> ~Less(left, right))]

\* result or right / result and right on Python values
PyOr(result, right) == IF Truthy(result) THEN result ELSE right

PyAnd(result, right) == IF Truthy(result) THEN right ELSE result

\* The recursive-descent parser.  Each method is split at the calls it
\* makes: the text after a call is the operator that receives its result.
RECURSIVE parse_or(_, _, _)
RECURSIVE parse_or_first(_, _, _)
RECURSIVE parse_or_loop(_, _, _, _)
RECURSIVE parse_or_right(_, _, _, _)
RECURSIVE parse_and(_, _, _)
RECURSIVE parse_and_first(_, _, _)
RECURSIVE parse_and_loop(_, _, _, _)
RECURSIVE parse_and_right(_, _, _, _)
RECURSIVE parse_not(_, _, _)
RECURSIVE parse_comparison(_, _, _)
RECURSIVE parse_comparison_left(_, _, _)
RECURSIVE parse_primary(_, _, _)

\* _parse_or: or_expr = and_expr (OR and_expr)*
parse_or(tokens, pos, context) ==
    parse_or_first(tokens, context, parse_and(tokens, pos, context))

parse_or_first(tokens, context, first) ==
    IF first.exc # "none" THEN first
    ELSE parse_or_loop(tokens, first.pos, context, first.val)

parse_or_loop(tokens, pos, context, result) ==
    IF current_token(tokens, pos).type = "OR"
    THEN parse_or_right(tokens, context, result, parse_and(tokens, pos + 1, context))
    ELSE Ret(result, pos)

\* _parse_or not looking at a failing right operand when the left is true
parse_or_right_short_circuit(tokens, context, result, right) ==
    IF right.exc # "none"
    THEN IF Truthy(result) THEN Ret(result, Len(tokens) - 1) ELSE right
    ELSE parse_or_loop(tokens, right.pos, context, PyOr(result, right.val))

parse_or_right(tokens, context, result, right) ==
    IF right.exc # "none" THEN right
    ELSE parse_or_loop(tokens, right.pos, context, PyOr(result, right.val))

\* _parse_and: and_expr = not_expr (AND not_expr)*
parse_and(tokens, pos, context) ==
    parse_and_first(tokens, context, parse_not(tokens, pos, context))

parse_and_first(tokens, context, first) ==
    IF first.exc # "none" THEN first
    ELSE parse_and_loop(tokens, first.pos, context, first.val)

\* _parse_and taking a whole or_expr as the right operand of AND
parse_and_loop_or_operand(tokens, pos, context, result) ==
    IF current_token(tokens, pos).type = "AND"
    THEN parse_and_right(tokens, context, result, parse_or(tokens, pos + 1, context))
    ELSE Ret(result, pos)

parse_and_loop(tokens, pos, context, result) ==
    IF current_token(tokens, pos).type = "AND"
    THEN parse_and_right(tokens, context, result, parse_not(tokens, pos + 1, context))
    ELSE Ret(result, pos)

parse_and_right(tokens, context, result, right) ==
    IF right.exc # "none" THEN right
    ELSE parse_and_loop(tokens, right.pos, context, PyAnd(result, right.val))

\* not r
NotOf(r) == IF r.exc # "none" THEN r ELSE Ret(BoolV(~Truthy(r.val)), r.pos)

\* _parse_not negating a whole and_expr
parse_not_of_and(tokens, pos, context) ==
    IF current_token(tokens, pos).type = "NOT"
    THEN NotOf(parse_and(tokens, pos + 1, context))
    ELSE parse_comparison(tokens, pos, context)

\* _parse_not: not_expr = NOT not_expr | comparison
parse_not(tokens, pos, context) ==
    IF current_token(tokens, pos).type = "NOT"
    THEN NotOf(parse_not(tokens, pos + 1, context))
    ELSE parse_comparison(tokens, pos, context)

\* The comparison once both operands are parsed
CompareOf(op, left, right) ==
    IF right.exc # "none" THEN right
    ELSE IF Compare(op, left.val, right.val).exc # "none"
    THEN Raise(Compare(op, left.val, right.val).exc, right.pos)
    ELSE Ret(Compare(op, left.val, right.val).val, right.pos)

\* _parse_comparison: comparison = primary (comp_op primary)?
parse_comparison(tokens, pos, context) ==
    parse_comparison_left(tokens, context, parse_primary(tokens, pos, context))

parse_comparison_left(tokens, context, left) ==
    IF left.exc # "none" THEN left
    ELSE IF IsCompOp(current_token(tokens, left.pos).type)
    THEN CompareOf(current_token(tokens, left.pos).type, left,
                   parse_primary(tokens, left.pos + 1, context))
    ELSE Ret(BoolV(Truthy(left.val)), left.pos)

\* The parenthesised expression once or_expr is parsed
CloseParen(tokens, r) ==
    IF r.exc # "none" THEN r
    ELSE IF current_token(tokens, r.pos).type # "RPAREN"
    THEN Raise("ConditionEvaluationError", r.pos)
    ELSE Ret(r.val, r.pos + 1)

\* _parse_primary parsing only an and_expr between the parentheses
parse_primary_and_in_parens(tokens, pos, context) ==
    IF current_token(tokens, pos).type = "LPAREN"
    THEN CloseParen(tokens, parse_and(tokens, pos + 1, context))
    ELSE IF current_token(tokens, pos).type \in {"NUMBER", "STRING", "BOOLEAN"}
    THEN Ret(current_token(tokens, pos).value, pos + 1)
    ELSE IF current_token(tokens, pos).type = "NULL" THEN Ret(NoneV, pos + 1)
    ELSE IF current_token(tokens, pos).type = "VARIABLE"
    THEN Ret(resolve_variable(current_token(tokens, pos).value.s, context), pos + 1)
    ELSE Raise("ConditionEvaluationError", pos)

\* _parse_primary: primary = LPAREN or_expr RPAREN | literal | variable
parse_primary(tokens, pos, context) ==
    IF current_token(tokens, pos).type = "LPAREN"
    THEN CloseParen(tokens, parse_or(tokens, pos + 1, context))
    ELSE IF current_token(tokens, pos).type \in {"NUMBER", "STRING", "BOOLEAN"}
    THEN Ret(current_token(tokens, pos).value, pos + 1)
    ELSE IF current_token(tokens, pos).type = "NULL" THEN Ret(NoneV, pos + 1)
    ELSE IF current_token(tokens, pos).type = "VARIABLE"
    THEN Ret(resolve_variable(current_token(tokens, pos).value.s, context), pos + 1)
    ELSE Raise("ConditionEvaluationError", pos)

\* evaluate without the end-of-input check
EvaluateParsed_no_eof_check(tokens, r) ==
    IF r.exc # "none" THEN [exc |-> "ConditionEvaluationError", result |-> FALSE]
    ELSE [exc |-> "none", result |-> Truthy(r.val)]

\* evaluate letting the exception of the parse through as it is
EvaluateParsed_exception_kept(tokens, r) ==
    IF r.exc # "none" THEN [exc |-> r.exc, result |-> FALSE]
    ELSE IF current_token(tokens, r.pos).type # "EOF"
    THEN [exc |-> "ConditionEvaluationError", result |-> FALSE]
    ELSE [exc |-> "none", result |-> Truthy(r.val)]

\* evaluate once the expression is parsed: the end-of-input check, bool(),
\* and every exception turned into ConditionEvaluationError
EvaluateParsed(tokens, r) ==
    IF r.exc # "none" THEN [exc |-> "ConditionEvaluationError", result |-> FALSE]
    ELSE IF current_token(tokens, r.pos).type # "EOF"
    THEN [exc |-> "ConditionEvaluationError", result |-> FALSE]
    ELSE [exc |-> "none", result |-> Truthy(r.val)]

EvaluateLexed(lexed, context) ==
    IF lexed.err THEN [exc |-> "ConditionEvaluationError", result |-> FALSE]
    ELSE EvaluateParsed(lexed.tokens, parse_or(lexed.tokens, 0, context))

\* ConditionEvaluator.evaluate(condition, context): the boolean returned, or
\* the exception raised to the caller.
evaluate(condition, context) ==
    IF condition = <<>> \/ Strip(condition) = <<>>
    THEN [exc |-> "none", result |-> TRUE]
    ELSE EvaluateLexed(tokenize(Strip(condition)), context)

\* ------------------------------------------------------------------------
\* VariableResolver
\* ------------------------------------------------------------------------
\* The contexts of the model are trees whose lists hold immutable scalars:
\* a list is reached through dict keys only, and what a list method returns
\* shares no mutable object with the context.

\* The value stored under the key path `path` of the dict tree `root`
RECURSIVE GetAt(_, _)
GetAt(root, path) == IF path = <<>> THEN root ELSE GetAt(root.d[Head(path)], Tail(path))

\* The dict tree `root` with the value under `path` replaced by `new`
RECURSIVE SetAt(_, _, _)
SetAt(root, path, new) ==
    IF path = <<>> THEN new
    ELSE DictV([root.d EXCEPT ![Head(path)] = SetAt(root.d[Head(path)], Tail(path), new)])

Reverse(seq) == [i \in 1..Len(seq) |-> seq[Len(seq) + 1 - i]]

\* attr() for a bound list method called without arguments: the list after
\* the call, the value returned, and the exception raised
CallListMethod(list, name) ==
    CASE name = <<"pop">> ->
           IF list.items = <<>>
           THEN [exc |-> "IndexError", self |-> list, val |-> NoneV]
           ELSE [exc |-> "none",
                 self |-> ListV(SubSeq(list.items, 1, Len(list.items) - 1)),
                 val |-> list.items[Len(list.items)]]
      [] name = <<"clear">> -> [exc |-> "none", self |-> ListV(<<>>), val |-> NoneV]
      [] name = <<"reverse">> ->
           [exc |-> "none", self |-> ListV(Reverse(list.items)), val |-> NoneV]
      [] name = <<"copy">> -> [exc |-> "none", self |-> list, val |-> list]
      [] name = <<"append">> -> [exc |-> "TypeError", self |-> list, val |-> NoneV]

\* attr() for int.to_bytes called without arguments (length = 1,
\* byteorder = "big", signed = False)
CallIntMethod(int, name) ==
    IF int.n < 0 \/ int.n > 255
    THEN [exc |-> "OverflowError", self |-> int, val |-> NoneV]
    ELSE [exc |-> "none", self |-> int, val |-> BytesV(int.n)]

\* attr() for a callable attribute; only TypeError is caught by resolve
CallMethod(value, name) ==
    IF value.t = "list" THEN CallListMethod(value, name) ELSE CallIntMethod(value, name)

\* The loop of VariableResolver.resolve over the remaining parts.  `value`
\* is the value reached; when attached, it is the object stored in the
\* context under `path`, so that a method call on it changes the context.
RECURSIVE resolve_walk(_, _, _, _, _, _)
resolve_walk(parts, value, attached, path, context, strict) ==
    IF parts = <<>> THEN [exc |-> "none", val |-> value, context |-> context]
    ELSE LET part == Head(parts)
             Missing == IF strict
                        THEN [exc |-> "VariableResolutionError", val |-> NoneV,
                              context |-> context]
                        ELSE [exc |-> "none", val |-> NoneV, context |-> context]
         IN
         IF value.t = "none" THEN Missing
         ELSE IF value.t = "dict"
         THEN IF part \in DOMAIN value.d
              THEN resolve_walk(Tail(parts), value.d[part], attached,
                                Append(path, part), context, strict)
              ELSE Missing
         ELSE IF HasAttr(value, part)
         THEN LET call == CallMethod(value, part) IN
              IF call.exc = "TypeError"
              THEN resolve_walk(Tail(parts), MethodV(value, part), FALSE, <<>>,
                                context, strict)
              ELSE IF call.exc # "none"
              THEN [exc |-> call.exc, val |-> NoneV, context |-> context]
              ELSE resolve_walk(Tail(parts), call.val, FALSE, <<>>,
                                IF attached THEN SetAt(context, path, call.self)
                                ELSE context,
                                strict)
         ELSE Missing

\* VariableResolver(strict).resolve(name, context): the value returned, the
\* exception raised, and the context object after the call
resolve(name, context, strict) ==
    IF name = <<>>
    THEN [exc |-> "VariableResolutionError", val |-> NoneV, context |-> context]
    ELSE resolve_walk(SplitDot(name), context, TRUE, <<>>, context, strict)

\* TemplateEngine.__init__: self.variable_resolver = VariableResolver()
EngineStrict == FALSE

\* ------------------------------------------------------------------------
\* Value coercion: TemplateEngine._to_safe_string
\* ------------------------------------------------------------------------
\* str(n)
IntToStr(n) == IF n < 0 THEN <<"-">> \o NatToDigits(-n) ELSE NatToDigits(n)

\* The exponent of repr(float): a sign and at least two digits
Exponent(sign, n) == <<"e", sign>> \o (IF n < 10 THEN <<"0">> ELSE <<>>) \o NatToDigits(n)

\* d.ddd of repr(float) in exponent notation, for significant digits ds
Mantissa(ds) == IF Len(ds) = 1 THEN ds ELSE <<ds[1], ".">> \o Tail(ds)

\* str(value) for a float: repr's positional notation for magnitudes from
\* 1e-4 up to 1e16, exponent notation outside
FloatMagToStr(v) ==
    IF Len(v.whole) > 16
    THEN Mantissa(DropTrailingZeros(v.whole \o v.frac)) \o Exponent("+", Len(v.whole) - 1)
    ELSE IF v.whole = <<"0">> /\ Len(v.frac) - Len(DropLeadingZeros(v.frac)) >= 4
    THEN Mantissa(DropLeadingZeros(v.frac))
         \o Exponent("-", Len(v.frac) - Len(DropLeadingZeros(v.frac)) + 1)
    ELSE v.whole \o <<".">> \o (IF v.frac = <<>> THEN <<"0">> ELSE v.frac)

FloatToStr(v) == (IF v.neg THEN <<"-">> ELSE <<>>) \o FloatMagToStr(v)

\* ", ".join(items)
RECURSIVE JoinComma(_)
JoinComma(items) ==
    IF items = <<>> THEN <<>>
    ELSE IF Len(items) = 1 THEN items[1]
    ELSE items[1] \o <<",", " ">> \o JoinComma(Tail(items))

\* _to_safe_string with no branch for dict: a dict reaches the str() fallback
RECURSIVE to_safe_string_dict_fallback(_)
to_safe_string_dict_fallback(value) ==
    CASE value.t = "none" -> [exc |-> "none", s |-> <<>>]
      [] value.t = "str" -> [exc |-> "none", s |-> Strip(value.s)]
      [] value.t = "bool" ->
           [exc |-> "none", s |-> IF value.b THEN <<"Yes">> ELSE <<"No">>]
      [] value.t = "int" -> [exc |-> "none", s |-> IntToStr(value.n)]
      [] value.t = "float" -> [exc |-> "none", s |-> FloatToStr(value)]
      [] value.t = "list" ->
           LET kept == SelectSeq(value.items, LAMBDA item : item.t # "none")
               strs == [i \in 1..Len(kept) |-> to_safe_string_dict_fallback(kept[i])]
           IN [exc |-> "none", s |-> JoinComma([i \in 1..Len(strs) |-> strs[i].s])]
      [] OTHER -> [exc |-> "none", s |-> <<"{...}">>]

\* _to_safe_string joining every item of a list, the None ones as well
RECURSIVE to_safe_string_keep_none(_)
to_safe_string_keep_none(value) ==
    CASE value.t = "none" -> [exc |-> "none", s |-> <<>>]
      [] value.t = "str" -> [exc |-> "none", s |-> Strip(value.s)]
      [] value.t = "bool" ->
           [exc |-> "none", s |-> IF value.b THEN <<"Yes">> ELSE <<"No">>]
      [] value.t = "int" -> [exc |-> "none", s |-> IntToStr(value.n)]
      [] value.t = "float" -> [exc |-> "none", s |-> FloatToStr(value)]
      [] value.t = "list" ->
           LET strs == [i \in 1..Len(value.items) |->
                           to_safe_string_keep_none(value.items[i])]
           IN IF \E i \in 1..Len(strs) : strs[i].exc # "none"
              THEN [exc |-> "VariableResolutionError", s |-> <<>>]
              ELSE [exc |-> "none",
                    s |-> JoinComma([i \in 1..Len(strs) |-> strs[i].s])]
      [] value.t = "dict" -> [exc |-> "VariableResolutionError", s |-> <<>>]
      [] OTHER -> [exc |-> "none", s |-> <<"<built-in method>">>]

RECURSIVE to_safe_string(_)
to_safe_string(value) ==
    CASE value.t = "none" -> [exc |-> "none", s |-> <<>>]
      [] value.t = "str" -> [exc |-> "none", s |-> Strip(value.s)]
      [] value.t = "bool" ->
           [exc |-> "none", s |-> IF value.b THEN <<"Yes">> ELSE <<"No">>]
      [] value.t = "int" -> [exc |-> "none", s |-> IntToStr(value.n)]
      [] value.t = "float" -> [exc |-> "none", s |-> FloatToStr(value)]
      [] value.t = "list" ->
           LET kept == SelectSeq(value.items, LAMBDA item : item.t # "none")
               strs == [i \in 1..Len(kept) |-> to_safe_string(kept[i])]
           IN IF \E i \in 1..Len(strs) : strs[i].exc # "none"
              THEN [exc |-> "VariableResolutionError", s |-> <<>>]
              ELSE [exc |-> "none",
                    s |-> JoinComma([i \in 1..Len(strs) |-> strs[i].s])]
      [] value.t = "dict" -> [exc |-> "VariableResolutionError", s |-> <<>>]
      [] value.t = "bytes" -> [exc |-> "none", s |-> <<"b'", "\\x", ToString(value.n), "'">>]
      [] OTHER -> [exc |-> "none", s |-> <<"<built-in method>">>]

\* ------------------------------------------------------------------------
\* Regular expressions over lexemes (the backtracking matcher of re)
\* ------------------------------------------------------------------------
\* A pattern is a sequence of elements: a quantified single-lexeme class
\* (k = "lit", "ws" for \s, "word" for \w, "any" for . under DOTALL) that
\* may be capture group g, a group boundary ("open", "close"), a greedy
\* repetition (?:sub)* ("rep") of a sub-pattern that consumes at least one
\* lexeme, or a run of literals and whitespace ("fixed") in which every
\* \s* or \s+ is followed by a literal that is not whitespace.
Elem(k, c, min, many, lazy) ==
    [k |-> k, c |-> c, min |-> min, many |-> many, lazy |-> lazy, g |-> 0,
     sub |-> <<>>, items |-> <<>>]

Lit(c) == Elem("lit", c, 1, FALSE, FALSE)

WsStar == Elem("ws", "", 0, TRUE, FALSE)

WsPlus == Elem("ws", "", 1, TRUE, FALSE)

WordPlus == Elem("word", "", 1, TRUE, FALSE)

AnyLazyPlus == Elem("any", "", 1, TRUE, TRUE)

AnyLazyStar == Elem("any", "", 0, TRUE, TRUE)

Open(g) == [Elem("open", "", 0, FALSE, FALSE) EXCEPT !.g = g]

Close(g) == [Elem("close", "", 0, FALSE, FALSE) EXCEPT !.g = g]

RepStar(sub) == [Elem("rep", "", 0, TRUE, FALSE) EXCEPT !.sub = sub]

Fixed(items) == [Elem("fixed", "", 0, FALSE, FALSE) EXCEPT !.items = items]

\* (e): the element as capture group g
Capture(g, e) == [e EXCEPT !.g = g]

InClass(e, ch) ==
    CASE e.k = "lit" -> ch = e.c
      [] e.k = "ws" -> IsSpace(ch)
      [] e.k = "word" -> IsWord(ch)
      [] e.k = "any" -> TRUE
      [] e.k = "fixed" -> ch = e.items[1].c
      [] OTHER -> FALSE

\* Length of the longest run of lexemes of e's class from position pos
RunLen(e, text, pos) ==
    LET stops == {i \in pos..(Len(text) - 1) : ~InClass(e, text[i + 1])} IN
    IF stops = {} THEN Len(text) - pos
    ELSE (CHOOSE i \in stops : \A j \in stops : i <= j) - pos

\* The most repetitions of e the text allows from position pos
MaxCount(e, text, pos) ==
    IF e.many THEN RunLen(e, text, pos)
    ELSE IF pos < Len(text) /\ InClass(e, text[pos + 1]) THEN 1 ELSE 0

\* The position after a fixed run matched from pos, or -1.  Whitespace is
\* taken greedily: the literal after it cannot match a space it gave back.
RECURSIVE FixedEnd(_, _, _, _)
FixedEnd(items, j, text, pos) ==
    IF j > Len(items) THEN pos
    ELSE IF MaxCount(items[j], text, pos) < items[j].min THEN -1
    ELSE FixedEnd(items, j + 1, text, pos + MaxCount(items[j], text, pos))

NoMatch == [ok |-> FALSE, start |-> 0, end |-> 0, gs |-> <<>>, ge |-> <<>>]

\* Of the attempts <<n, match>> that succeeded, the one the backtracking
\* matcher reaches first: the smallest n when lowest, the largest otherwise
FirstOf(tries, lowest) ==
    LET good == {r \in tries : r[2].ok} IN
    IF good = {} THEN NoMatch
    ELSE (CHOOSE r \in good : \A q \in good : IF lowest THEN r[1] <= q[1] ELSE r[1] >= q[1])[2]

\* Group g's boundary recorded at pos (g = 0: the element is no group)
Mark(bounds, g, pos) == IF g = 0 THEN bounds ELSE [bounds EXCEPT ![g] = pos]

\* MatchAt: match pat[k..] against text from position pos; gs and ge are
\* the group start and end positions recorded so far.  A quantified class
\* is tried with every repetition count its run allows, and the count the
\* matcher tries first among those that let the rest match is the result:
\* the shortest when lazy, the longest when greedy.
RECURSIVE MatchAt(_, _, _, _, _, _)
RECURSIVE MatchRep(_, _, _, _, _, _, _)
RECURSIVE MatchFixed(_, _, _, _, _, _)
MatchAt(pat, k, text, pos, gs, ge) ==
    CASE k > Len(pat) ->
            [ok |-> TRUE, start |-> 0, end |-> pos, gs |-> gs, ge |-> ge]
      [] pat[k].k = "open" ->
            MatchAt(pat, k + 1, text, pos, [gs EXCEPT ![pat[k].g] = pos], ge)
      [] pat[k].k = "close" ->
            MatchAt(pat, k + 1, text, pos, gs, [ge EXCEPT ![pat[k].g] = pos])
      [] pat[k].k = "rep" ->
            MatchRep(pat, k, text, pos, gs, ge,
                     MatchAt(pat[k].sub \o SubSeq(pat, k, Len(pat)), 1, text, pos, gs, ge))
      [] pat[k].k = "fixed" ->
            MatchFixed(pat, k, text, gs, ge, FixedEnd(pat[k].items, 1, text, pos))
      [] OTHER ->
            FirstOf({<<n, MatchAt(pat, k + 1, text, pos + n, Mark(gs, pat[k].g, pos),
                                  Mark(ge, pat[k].g, pos + n))>> :
                        n \in pat[k].min..MaxCount(pat[k], text, pos)},
                    pat[k].lazy)

\* (?:sub)*: one more round of sub if the rest then matches, else none
MatchRep(pat, k, text, pos, gs, ge, again) ==
    IF again.ok THEN again ELSE MatchAt(pat, k + 1, text, pos, gs, ge)

\* A fixed run that ended at position end
MatchFixed(pat, k, text, gs, ge, end) ==
    IF end < 0 THEN NoMatch ELSE MatchAt(pat, k + 1, text, end, gs, ge)

\* pattern.search(text, pos): the leftmost match starting at pos or later
\* (a match starts with a lexeme of the pattern's first element)
Search(pat, text, pos) ==
    FirstOf({<<p, [MatchAt(pat, 1, text, p, <<0, 0, 0>>, <<0, 0, 0>>) EXCEPT !.start = p]>> :
                p \in {q \in pos..(Len(text) - 1) : InClass(pat[1], text[q + 1])}},
            TRUE)

\* pattern.finditer(text): the non-overlapping matches, left to right (the
\* matches pattern.sub replaces).  No pattern here matches the empty text,
\* so the search ends at the end of the text.
RECURSIVE FindAll(_, _, _)
RECURSIVE FindMore(_, _, _)
FindAll(pat, text, pos) ==
    IF pos >= Len(text) THEN <<>> ELSE FindMore(pat, text, Search(pat, text, pos))

FindMore(pat, text, m) == IF ~m.ok THEN <<>> ELSE <<m>> \o FindAll(pat, text, m.end)

\* text[a:b]
Slice(text, a, b) == SubSeq(text, a + 1, b)

\* match.group(g)
Group(text, m, g) == Slice(text, m.gs[g], m.ge[g])

\* {%\s*word\s*%}
Tag(word) == Fixed(<<Lit("{%"), WsStar, Lit(word), WsStar, Lit("%}")>>)

\* {%\s*word and \s*%}
TagOpen(word) == Fixed(<<Lit("{%"), WsStar, Lit(word)>>)

TagClose == Fixed(<<WsStar, Lit("%}")>>)

\* TemplateEngine.VARIABLE_PATTERN  \{\{(\w+(?:\.\w+)*)\}\}
VARIABLE_PATTERN ==
    <<Lit("{{"), Open(1), WordPlus, RepStar(<<Lit("."), WordPlus>>), Close(1), Lit("}}")>>

\* TemplateEngine.CONDITIONAL_PATTERN
\*   \{%\s*if\s+(.+?)\s*%\}(.*?)\{%\s*endif\s*%\}
CONDITIONAL_PATTERN ==
    <<TagOpen("if"), WsPlus, Capture(1, AnyLazyPlus), TagClose,
      Capture(2, AnyLazyStar), Tag("endif")>>

\* TemplateEngine.CONDITIONAL_ELSE_PATTERN
\*   \{%\s*if\s+(.+?)\s*%\}(.*?)\{%\s*else\s*%\}(.*?)\{%\s*endif\s*%\}
CONDITIONAL_ELSE_PATTERN ==
    <<TagOpen("if"), WsPlus, Capture(1, AnyLazyPlus), TagClose,
      Capture(2, AnyLazyStar), Tag("else"), Capture(3, AnyLazyStar), Tag("endif")>>

\* TemplateEngine.SECTION_PATTERN
\*   \{%\s*section\s+(\w+)\s*%\}(.*?)\{%\s*endsection\s*%\}
SECTION_PATTERN ==
    <<TagOpen("section"), WsPlus, Capture(1, WordPlus), TagClose,
      Capture(2, AnyLazyStar), Tag("endsection")>>

\* TemplateEngine.INCLUDE_PATTERN  \{%\s*include\s+(\w+)\s*%\}
INCLUDE_PATTERN == <<TagOpen("include"), WsPlus, Capture(1, WordPlus), TagClose>>

\* ------------------------------------------------------------------------
\* TemplateEngine
\* ------------------------------------------------------------------------
\* pattern.sub(handler, text) for a handler without side effects:
\* repls[i] is the text the handler returns for matches[i].
RECURSIVE SubFrom(_, _, _, _, _)
SubFrom(text, matches, repls, i, last) ==
    IF i > Len(matches) THEN Slice(text, last, Len(text))
    ELSE Slice(text, last, matches[i].start) \o repls[i]
         \o SubFrom(text, matches, repls, i + 1, matches[i].end)

\* section_handler run over the matches: each section is stored under its
\* name, a later definition of a name replacing an earlier one
RECURSIVE StoreSections(_, _, _, _)
StoreSections(text, matches, i, sections) ==
    IF i > Len(matches) THEN sections
    ELSE StoreSections(text, matches, i + 1,
                       [n \in DOMAIN sections \cup {Group(text, matches[i], 1)} |->
                           IF n = Group(text, matches[i], 1)
                           THEN Strip(Group(text, matches[i], 2))
                           ELSE sections[n]])

SectionsSub(template, sections, matches) ==
    [text |-> SubFrom(template, matches, [i \in 1..Len(matches) |-> <<>>], 1, 0),
     sections |-> StoreSections(template, matches, 1, sections)]

\* _parse_sections: SECTION_PATTERN.sub(section_handler, template); the
\* text without the section spans and self._sections after the call
parse_sections(template, sections) ==
    SectionsSub(template, sections, FindAll(SECTION_PATTERN, template, 0))

\* conditional_handler of _process_conditionals_with_else, r the outcome of
\* evaluate on group 1
ElseChoice(text, m, r) ==
    IF r.exc # "none" THEN <<>>
    ELSE IF r.result THEN Group(text, m, 2) ELSE Group(text, m, 3)

else_handler(text, m, context) == ElseChoice(text, m, evaluate(Group(text, m, 1), context))

ElseSub(template, context, matches) ==
    SubFrom(template, matches,
            [i \in 1..Len(matches) |-> else_handler(template, matches[i], context)], 1, 0)

process_conditionals_with_else(template, context) ==
    ElseSub(template, context, FindAll(CONDITIONAL_ELSE_PATTERN, template, 0))

\* conditional_handler of _process_conditionals
IfChoice(text, m, r) ==
    IF r.exc # "none" THEN <<>>
    ELSE IF r.result THEN Group(text, m, 2) ELSE <<>>

if_handler(text, m, context) == IfChoice(text, m, evaluate(Group(text, m, 1), context))

IfSub(template, context, matches) ==
    SubFrom(template, matches,
            [i \in 1..Len(matches) |-> if_handler(template, matches[i], context)], 1, 0)

process_conditionals(template, context) ==
    IfSub(template, context, FindAll(CONDITIONAL_PATTERN, template, 0))

\* f"[{var_name}]"
Placeholder(var_name) == <<"[">> \o var_name \o <<"]">>

\* variable_handler after resolve returned: _to_safe_string, with
\* VariableResolutionError caught
HandleString(var_name, context, str) ==
    IF str.exc = "VariableResolutionError"
    THEN [exc |-> "none", s |-> Placeholder(var_name), context |-> context]
    ELSE [exc |-> "none", s |-> str.s, context |-> context]

HandleResolved(var_name, r) ==
    IF r.exc = "VariableResolutionError"
    THEN [exc |-> "none", s |-> Placeholder(var_name), context |-> r.context]
    ELSE IF r.exc # "none" THEN [exc |-> r.exc, s |-> <<>>, context |-> r.context]
    ELSE HandleString(var_name, r.context, to_safe_string(r.val))

\* variable_handler of _substitute_variables: the replacement text, the
\* exception that escapes the handler, and the context after the call
variable_handler(var_name, context) ==
    HandleResolved(var_name, resolve(var_name, context, EngineStrict))

\* _substitute_variables: VARIABLE_PATTERN.sub(variable_handler, template)
RECURSIVE substitute_from(_, _, _, _, _, _)
RECURSIVE substitute_next(_, _, _, _, _, _)
substitute_from(text, matches, i, last, out, context) ==
    IF i > Len(matches)
    THEN [exc |-> "none", text |-> out \o Slice(text, last, Len(text)), context |-> context]
    ELSE substitute_next(text, matches, i, last, out,
                         variable_handler(Group(text, matches[i], 1), context))

substitute_next(text, matches, i, last, out, h) ==
    IF h.exc # "none" THEN [exc |-> h.exc, text |-> <<>>, context |-> h.context]
    ELSE substitute_from(text, matches, i + 1, matches[i].end,
                         out \o Slice(text, last, matches[i].start) \o h.s, h.context)

substitute_variables(template, context) ==
    substitute_from(template, FindAll(VARIABLE_PATTERN, template, 0), 1, 0, <<>>, context)

\* f"[MISSING SECTION: {section_name}]"
MissingSection(section_name) ==
    <<"[", "MISSING", " ", "SECTION", ":", " ">> \o section_name \o <<"]">>

\* _process_includes: INCLUDE_PATTERN.sub(include_handler, template).  The
\* result carries the engine's resolution stack and the context after the
\* call; on CircularDependencyError, chain holds the names of the error's
\* dependency_chain (list(self._resolution_stack) + [section_name], whose
\* order is the iteration order of a set).
RECURSIVE process_includes(_, _, _, _)
RECURSIVE includes_from(_, _, _, _, _, _, _, _)
RECURSIVE includes_next(_, _, _, _, _, _, _)
RECURSIVE include_handler(_, _, _, _)
RECURSIVE include_expanded(_, _)
process_includes(template, sections, stack, context) ==
    includes_from(template, FindAll(INCLUDE_PATTERN, template, 0), 1, 0, <<>>,
                  sections, stack, context)

includes_from(text, matches, i, last, out, sections, stack, context) ==
    IF i > Len(matches)
    THEN [exc |-> "none", text |-> out \o Slice(text, last, Len(text)),
          stack |-> stack, context |-> context, chain |-> {}]
    ELSE includes_next(text, matches, i, last, out, sections,
                       include_handler(Group(text, matches[i], 1), sections, stack, context))

includes_next(text, matches, i, last, out, sections, h) ==
    IF h.exc # "none" THEN h
    ELSE includes_from(text, matches, i + 1, matches[i].end,
                       out \o Slice(text, last, matches[i].start) \o h.text,
                       sections, h.stack, h.context)

\* include_handler leaving nothing where an undefined section is included
include_handler_missing_empty(section_name, sections, stack, context) ==
    IF section_name \in stack
    THEN [exc |-> "CircularDependencyError", text |-> <<>>, stack |-> stack,
          context |-> context, chain |-> stack \cup {section_name}]
    ELSE IF section_name \notin DOMAIN sections
    THEN [exc |-> "none", text |-> <<>>, stack |-> stack,
          context |-> context, chain |-> {}]
    ELSE include_expanded(section_name,
                          process_includes(sections[section_name], sections,
                                           stack \cup {section_name}, context))

\* include_handler whose error names only the section just included
include_handler_short_chain(section_name, sections, stack, context) ==
    IF section_name \in stack
    THEN [exc |-> "CircularDependencyError", text |-> <<>>, stack |-> stack,
          context |-> context, chain |-> {section_name}]
    ELSE IF section_name \notin DOMAIN sections
    THEN [exc |-> "none", text |-> MissingSection(section_name), stack |-> stack,
          context |-> context, chain |-> {}]
    ELSE include_expanded(section_name,
                          process_includes(sections[section_name], sections,
                                           stack \cup {section_name}, context))

\* include_handler: the cycle check, the missing-section placeholder, then
\* the push on the resolution stack and the recursive expansion
include_handler(section_name, sections, stack, context) ==
    IF section_name \in stack
    THEN [exc |-> "CircularDependencyError", text |-> <<>>, stack |-> stack,
          context |-> context, chain |-> stack \cup {section_name}]
    ELSE IF section_name \notin DOMAIN sections
    THEN [exc |-> "none", text |-> MissingSection(section_name), stack |-> stack,
          context |-> context, chain |-> {}]
    ELSE include_expanded(section_name,
                          process_includes(sections[section_name], sections,
                                           stack \cup {section_name}, context))

\* include_handler that leaves the section's name on the stack
IncludeSubstituted_name_kept(section_name, stack, subst) ==
    IF subst.exc # "none"
    THEN [exc |-> subst.exc, text |-> <<>>, stack |-> stack,
          context |-> subst.context, chain |-> {}]
    ELSE [exc |-> "none", text |-> subst.text, stack |-> stack,
          context |-> subst.context, chain |-> {}]

\* include_handler after the section's own includes are processed: the
\* section's variables are substituted and its name leaves the stack
IncludeSubstituted(section_name, stack, subst) ==
    IF subst.exc # "none"
    THEN [exc |-> subst.exc, text |-> <<>>, stack |-> stack,
          context |-> subst.context, chain |-> {}]
    ELSE [exc |-> "none", text |-> subst.text, stack |-> stack \ {section_name},
          context |-> subst.context, chain |-> {}]

include_expanded(section_name, inner) ==
    IF inner.exc # "none" THEN inner
    ELSE IncludeSubstituted(section_name, inner.stack,
                            substitute_variables(inner.text, inner.context))

\* render after the last pass: template.strip()
RenderSubstituted(sections, stack, subst) ==
    IF subst.exc # "none"
    THEN [exc |-> subst.exc, text |-> <<>>, chain |-> {}, sections |-> sections,
          stack |-> stack, context |-> subst.context]
    ELSE [exc |-> "none", text |-> Strip(subst.text), chain |-> {}, sections |-> sections,
          stack |-> stack, context |-> subst.context]

\* render after _process_includes
RenderIncluded(sections, inc) ==
    IF inc.exc # "none"
    THEN [exc |-> inc.exc, text |-> <<>>, chain |-> inc.chain, sections |-> sections,
          stack |-> inc.stack, context |-> inc.context]
    ELSE RenderSubstituted(sections, inc.stack,
                           substitute_variables(inc.text, inc.context))

\* render resolving the conditionals after the includes are expanded
RenderParsed_conditionals_last(parsed, stack, context) ==
    LET inc == process_includes(parsed.text, parsed.sections, stack, context) IN
    RenderIncluded(parsed.sections,
                   IF inc.exc # "none" THEN inc
                   ELSE [inc EXCEPT !.text =
                            process_conditionals(
                                process_conditionals_with_else(inc.text, context), context)])

\* render after _parse_sections: both conditional passes, then the includes
RenderParsed(parsed, stack, context) ==
    RenderIncluded(parsed.sections,
                   process_includes(
                       process_conditionals(
                           process_conditionals_with_else(parsed.text, context), context),
                       parsed.sections, stack, context))

\* render from _parse_sections on, on an engine whose fields are engine
RenderFrom(engine, template, context) ==
    RenderParsed(parse_sections(template, engine.sections), engine.stack, context)

\* render on an engine that keeps the fields the calls before left
render_on_without_reset(sections, stack, template, context) ==
    RenderFrom([sections |-> sections, stack |-> stack], template, context)

\* TemplateEngine.render(template, context) for a str template, on an
\* engine whose self._sections and self._resolution_stack are sections and
\* stack: the text returned or the exception raised, with the engine's
\* fields and the context object as the call leaves them.  Both fields are
\* reset first ("# Reset state").
render_on(sections, stack, template, context) ==
    RenderFrom([sections |-> EmptyDict, stack |-> {}], template, context)

\* render on an engine just constructed (__init__)
render(template, context) == render_on(EmptyDict, {}, template, context)

\* [match.group(g) for match in matches]
Groups(text, matches, g) == [i \in 1..Len(matches) |-> Group(text, matches[i], g)]

\* get_variables: VARIABLE_PATTERN.findall(template)
get_variables(template) == Groups(template, FindAll(VARIABLE_PATTERN, template, 0), 1)

\* get_conditions: group 1 of the matches of CONDITIONAL_PATTERN, then of
\* those of CONDITIONAL_ELSE_PATTERN
get_conditions(template) ==
    Groups(template, FindAll(CONDITIONAL_PATTERN, template, 0), 1)
    \o Groups(template, FindAll(CONDITIONAL_ELSE_PATTERN, template, 0), 1)

\* template.count(tag) for one of the two-character tags
Count(template, tag) == Cardinality({i \in 1..Len(template) : template[i] = tag})

\* validate checking the template tags only
validate_tags_only(template, sections) ==
    LET errors == IF Count(template, "{%") # Count(template, "%}")
                  THEN <<"Unclosed template tags detected">> ELSE <<>>
    IN [t |-> "dict", valid |-> Len(errors) = 0, variables |-> get_variables(template),
        conditions |-> get_conditions(template), sections |-> DOMAIN sections,
        errors |-> errors]

\* validate: the dict returned, on an engine whose self._sections is
\* sections; 'sections' is read from the engine and holds its keys
validate(template, sections) ==
    LET errors == (IF Count(template, "{%") # Count(template, "%}")
                   THEN <<"Unclosed template tags detected">> ELSE <<>>)
                  \o (IF Count(template, "{{") # Count(template, "}}")
                      THEN <<"Unclosed variable tags detected">> ELSE <<>>)
    IN [t |-> "dict", valid |-> Len(errors) = 0, variables |-> get_variables(template),
        conditions |-> get_conditions(template), sections |-> DOMAIN sections,
        errors |-> errors]

\* ------------------------------------------------------------------------
\* Inputs of the model
\* ------------------------------------------------------------------------
\* Words joined by single spaces
RECURSIVE JoinSp(_)
JoinSp(words) ==
    IF words = <<>> THEN <<>>
    ELSE IF Len(words) = 1 THEN words[1]
    ELSE words[1] \o <<" ">> \o JoinSp(Tail(words))

KwAnd == <<"A", "N", "D">>

KwOr == <<"O", "R">>

KwNot == <<"N", "O", "T">>

\* "a AND b OR c"
CondAndOr == JoinSp(<< <<"a">>, KwAnd, <<"b">>, KwOr, <<"c">> >>)

\* "a OR b AND c OR d"
CondOrAndOr == JoinSp(<< <<"a">>, KwOr, <<"b">>, KwAnd, <<"c">>, KwOr, <<"d">> >>)

\* "NOT a AND b"
CondNotAnd == JoinSp(<< KwNot, <<"a">>, KwAnd, <<"b">> >>)

\* "a AND (b OR c)"
CondParen == JoinSp(<< <<"a">>, KwAnd, <<"(", "b">>, KwOr, <<"c", ")">> >>)

\* "a and b or c" in lower case and "not (a or b) and c"
CondLower == JoinSp(<< <<"a">>, Lower(KwAnd), <<"b">>, Lower(KwOr), <<"c">> >>)

CondNotParen ==
    JoinSp(<< Lower(KwNot), <<"(", "a">>, Lower(KwOr), <<"b", ")">>, Lower(KwAnd), <<"c">> >>)

\* "a > 1" (no operand), "a $ b" (no such character), "(a AND b" (unbalanced)
CondNoOperand == <<"a", " ", ">">>

CondBadChar == <<"a", " ", "$", " ", "b">>

CondUnbalanced == JoinSp(<< <<"(", "a">>, KwAnd, <<"b">> >>)

\* "age >= 18"
CondAge == <<"age", " ", ">", "=", " ", "1", "8">>

\* "false"
CondFalse == <<"f", "a", "l", "s", "e">>

PrecedenceConditions ==
    {CondAndOr, CondOrAndOr, CondNotAnd, CondParen, CondLower, CondNotParen}

FailingConditions == {CondNoOperand, CondBadChar, CondUnbalanced, CondAge}

\* The contexts {a, b, c, d} of booleans
BoolContext(a, b, c, d) ==
    DictV(<<"a">> :> BoolV(a) @@ <<"b">> :> BoolV(b) @@ <<"c">> :> BoolV(c)
          @@ <<"d">> :> BoolV(d))

BoolContexts == {BoolContext(a, b, c, d) : a, b, c, d \in BOOLEAN}

\* Template text
Var(name) == <<"{{">> \o name \o <<"}}">>

TSection(name, body) ==
    <<"{%", " ", "section", " ", name, " ", "%}">> \o body \o <<"{%", " ", "endsection", " ", "%}">>

TInclude(name) == <<"{%", " ", "include", " ", name, " ", "%}">>

TIf(cond) == <<"{%", " ", "if", " ">> \o cond \o <<" ", "%}">>

TElse == <<"{%", " ", "else", " ", "%}">>

TEndif == <<"{%", " ", "endif", " ", "%}">>

\* "Hello {{name}}, ID {{user_id}}"
TplHello ==
    <<"Hello", " ">> \o Var(<<"name">>) \o <<",", " ", "ID", " ">> \o Var(<<"user", "_", "id">>)

\* "Hello {{name}}"
TplName == <<"Hello", " ">> \o Var(<<"name">>)

\* "Email: {{user.contact.email}}"
TplNested == <<"Email", ":", " ">> \o Var(<<"user", ".", "contact", ".", "email">>)

\* "User {{user}}" and "Name {{user.name}}"
TplUser == <<"User", " ">> \o Var(<<"user">>)

TplUserName == <<"Name", " ">> \o Var(<<"user", ".", "name">>)

\* "Items {{items}}", "Last {{items.pop}}", "{{items.reverse}}{{items}}"
TplItems == <<"Items", " ">> \o Var(<<"items">>)

TplPop == <<"Last", " ">> \o Var(<<"items", ".", "pop">>)

TplReverse == Var(<<"items", ".", "reverse">>) \o Var(<<"items">>)

\* Sections a and b including each other, a included from the top level
TplCycle ==
    TSection("a", <<"See", " ">> \o TInclude("b")) \o <<"\n">>
    \o TSection("b", <<"See", " ">> \o TInclude("a")) \o <<"\n">> \o TInclude("a")

\* A section including itself
TplSelf == TSection("a", <<"Me", " ">> \o TInclude("a")) \o TInclude("a")

\* a includes b, b includes c, c includes a; the top level includes b
TplCycle3 ==
    TSection("a", TInclude("b")) \o TSection("b", TInclude("c"))
    \o TSection("c", <<"C">> \o TInclude("a")) \o <<"Top", " ">> \o TInclude("b")

\* The same mutually including sections, never included from the top level
TplCycleUnused ==
    TSection("a", TInclude("b")) \o TSection("b", TInclude("a")) \o <<"Body">>

\* A header section with a variable, included once, and a missing footer
TplHeader ==
    TSection("header", <<"Dear", " ">> \o Var(<<"name">>)) \o <<"\n">>
    \o TInclude("header") \o <<" ", "Main", " ">> \o TInclude("footer")

\* a includes b; both hold text
TplChain ==
    TSection("a", <<"A", " ">> \o TInclude("b")) \o TSection("b", <<"B">>)
    \o TInclude("a") \o <<" ", "end">>

\* Section a included twice in sequence
TplTwice == TSection("a", <<"A">>) \o TInclude("a") \o <<" ">> \o TInclude("a")

\* A diamond: top includes left and right, and each of them includes d
TplDiamond ==
    TSection("top", TInclude("left") \o <<" ">> \o TInclude("right"))
    \o TSection("left", <<"L", " ">> \o TInclude("d"))
    \o TSection("right", <<"R", " ">> \o TInclude("d"))
    \o TSection("d", <<"D">>) \o TInclude("top")

\* "{% section s %}Last {{items.pop}}{% endsection %}{% include s %}"
TplPopInSection ==
    TSection("s", <<"Last", " ">> \o Var(<<"items", ".", "pop">>)) \o TInclude("s")

\* "{% include nope %}"
TplMissing == TInclude("nope")

\* a includes the undefined nope
TplMissingInner ==
    TSection("a", <<"X", " ">> \o TInclude("nope")) \o TInclude("a") \o <<" ", "end">>

\* "{% if COND %}A{% endif %}Z" and "{% if COND %}A{% else %}B{% endif %}"
TplIf(cond) == TIf(cond) \o <<"A">> \o TEndif \o <<"Z">>

TplIfElse(cond) == TIf(cond) \o <<"A">> \o TElse \o <<"B">> \o TEndif

ConditionalConditions == FailingConditions \cup {CondAndOr, CondFalse}

Templates ==
    {TplHello, TplName, TplNested, TplUser, TplUserName, TplItems, TplPop, TplReverse,
     TplCycle, TplSelf, TplCycle3, TplCycleUnused, TplHeader, TplChain}
    \cup {TplIf(c) : c \in ConditionalConditions}
    \cup {TplIfElse(c) : c \in ConditionalConditions}

\* Contexts handed to the engine
CtxEmpty == DictV(EmptyDict)

CtxJohn == DictV(<<"name">> :> StrV(<<"John">>))

CtxUser ==
    DictV(<<"name">> :> StrV(<<" ", "John", " ">>)
          @@ <<"user">> :> DictV(<<"name">> :> StrV(<<"John">>))
          @@ <<"items">> :> ListV(<<StrV(<<"A">>), NoneV, StrV(<<"B">>)>>))

CtxFlags ==
    DictV(<<"a">> :> BoolV(TRUE) @@ <<"b">> :> BoolV(FALSE) @@ <<"c">> :> BoolV(FALSE)
          @@ <<"age">> :> IntV(25) @@ <<"items">> :> ListV(<<>>))

Contexts == {CtxEmpty, CtxJohn, CtxUser, CtxFlags}

\* Dotted names handed to VariableResolver.resolve
Names ==
    {<<"name">>, <<"user", "_", "id">>, <<"user", ".", "name">>,
     <<"user", ".", "contact", ".", "email">>, <<"items">>, <<"items", ".", "pop">>,
     <<"items", ".", "clear">>, <<"items", ".", "copy", ".", "pop">>,
     <<"items", ".", "append">>}

Conditions == PrecedenceConditions \cup FailingConditions \cup {CondFalse}

\* ------------------------------------------------------------------------
\* State
\* ------------------------------------------------------------------------
VARIABLES
    sections,   \* TemplateEngine._sections: section name -> content
    stack,      \* TemplateEngine._resolution_stack
    context,    \* the caller's context object
    supplied,   \* the context value tree as the caller supplied it
    call,       \* the last call that completed: operation, argument, outcome
    calls,      \* number of calls made so far
    renders     \* per thread, the render call it is in: position and locals

vars == <<sections, stack, context, supplied, call, calls, renders>>

NoCall ==
    [op |-> "none", arg |-> <<>>, exc |-> "none", text |-> <<>>, result |-> FALSE,
     val |-> NoneV, chain |-> {}]

\* The threads that call render on the one engine
Threads == {"t1", "t2"}

\* A thread that is in no render call
Idle == [pc |-> "idle", template |-> <<>>, text |-> <<>>, exc |-> "none", chain |-> {}]

\* TemplateEngine.__init__, and a context supplied by the caller
InitEngine(ctxs) ==
    /\ sections = EmptyDict
    /\ stack = {}
    /\ context \in ctxs
    /\ supplied = context
    /\ call = NoCall
    /\ calls = 0
    /\ renders = [t \in Threads |-> Idle]

\* engine.render(template, context)
Render(template) ==
    /\ calls < MaxCalls
    /\ LET r == render_on(sections, stack, template, context) IN
       /\ sections' = r.sections
       /\ stack' = r.stack
       /\ context' = r.context
       /\ call' = [NoCall EXCEPT !.op = "render", !.arg = template, !.exc = r.exc,
                                 !.text = r.text, !.chain = r.chain]
    /\ calls' = calls + 1
    /\ UNCHANGED <<supplied, renders>>

\* engine.condition_evaluator.evaluate(condition, context)
Evaluate(condition) ==
    /\ calls < MaxCalls
    /\ LET r == evaluate(condition, context) IN
       call' = [NoCall EXCEPT !.op = "evaluate", !.arg = condition, !.exc = r.exc,
                              !.result = r.result]
    /\ calls' = calls + 1
    /\ UNCHANGED <<sections, stack, context, supplied, renders>>

\* engine.variable_resolver.resolve(name, context)
Resolve(name) ==
    /\ calls < MaxCalls
    /\ LET r == resolve(name, context, EngineStrict) IN
       /\ context' = r.context
       /\ call' = [NoCall EXCEPT !.op = "resolve", !.arg = name, !.exc = r.exc,
                                 !.val = r.val]
    /\ calls' = calls + 1
    /\ UNCHANGED <<sections, stack, supplied, renders>>

Init == InitEngine(Contexts)

Next ==
    \/ \E template \in Templates : Render(template)
    \/ \E condition \in Conditions : Evaluate(condition)
    \/ \E name \in Names : Resolve(name)

Spec == Init /\ [][Next]_vars

\* The engine rendering the templates with sections, includes and
\* variables, without conditionals
IncludeTemplates ==
    {TplCycle, TplSelf, TplCycle3, TplCycleUnused, TplHeader, TplChain, TplHello, TplName,
     TplNested, TplUser, TplUserName, TplItems, TplPop, TplReverse, TplMissing,
     TplMissingInner, TplTwice, TplDiamond, TplPopInSection}

NextInclude == \E template \in IncludeTemplates : Render(template)

SpecInclude == Init /\ [][NextInclude]_vars

\* The condition evaluator alone, over every assignment of booleans
InitEval == InitEngine(BoolContexts)

NextEval == \E condition \in Conditions : Evaluate(condition)

SpecEval == InitEval /\ [][NextEval]_vars

\* Coercion alone: _to_safe_string applied to values of the context type
Zeros(n) == [i \in 1..n |-> "0"]

Str(word) == StrV(<<word>>)

\* 3.5, 2.0, 0.25, -2.5, 0.0001, 0.00001, 1e15, 1e16 and 1.2e17
Floats ==
    <<FloatV(FALSE, <<"3">>, <<"5">>), FloatV(FALSE, <<"2">>, <<>>),
      FloatV(FALSE, <<"0">>, <<"2", "5">>), FloatV(TRUE, <<"2">>, <<"5">>),
      FloatV(FALSE, <<"0">>, <<"0", "0", "0", "1">>),
      FloatV(FALSE, <<"0">>, <<"0", "0", "0", "0", "1">>),
      FloatV(FALSE, <<"1">> \o Zeros(15), <<>>),
      FloatV(FALSE, <<"1">> \o Zeros(16), <<>>),
      FloatV(FALSE, <<"1", "2">> \o Zeros(16), <<>>)>>

Scalars ==
    <<NoneV, BoolV(TRUE), BoolV(FALSE), IntV(0), IntV(25), IntV(-7),
      StrV(<<>>), StrV(<<" ", "John", " ">>), Str("A"), Str("B")>> \o Floats

\* Every list of two scalars; a tuple is coerced by the same branch as a list
Pairs ==
    [k \in 1..(Len(Scalars) * Len(Scalars)) |->
        ListV(<<Scalars[((k - 1) \div Len(Scalars)) + 1], Scalars[((k - 1) % Len(Scalars)) + 1]>>)]

Fruits == ListV(<<Str("Apple"), Str("Orange"), Str("Banana")>>)

ListANoneB == ListV(<<Str("A"), NoneV, Str("B")>>)

Mapping == DictV(<<"k">> :> IntV(1))

\* Sequences with sequences and mappings inside
Nested ==
    <<ListV(<<>>), Fruits, ListANoneB,
      ListV(<<Str("A"), ListV(<<Str("x"), NoneV, BoolV(TRUE)>>), FloatV(FALSE, <<"2">>, <<>>)>>),
      ListV(<<ListV(<<ListV(<<IntV(25)>>)>>)>>),
      ListV(<<Str("A"), Mapping>>),
      ListV(<<ListV(<<NoneV, Mapping>>)>>),
      ListV(<<Mapping>>)>>

Mappings == <<CtxEmpty, CtxJohn, Mapping>>

CoerceValues == Scalars \o Pairs \o Nested \o Mappings

\* engine._to_safe_string(value)
Coerce(value) ==
    /\ calls < MaxCalls
    /\ LET r == to_safe_string(value) IN
       call' = [NoCall EXCEPT !.op = "to_safe_string", !.val = value, !.exc = r.exc,
                              !.text = r.s]
    /\ calls' = calls + 1
    /\ UNCHANGED <<sections, stack, context, supplied, renders>>

\* Conditions on paths that are or are not in the context
KwNull == <<"n", "u", "l", "l">>

EqNull(path) == path \o <<" ", "=", "=", " ">> \o KwNull

NeNull(path) == path \o <<" ", "!", "=", " ">> \o KwNull

\* x, user.missing, user.name, user.contact.email and name
Paths ==
    {<<"x">>, <<"user", ".", "missing">>, <<"user", ".", "name">>,
     <<"user", ".", "contact", ".", "email">>, <<"name">>}

NullConditions == Paths \cup {EqNull(p) : p \in Paths} \cup {NeNull(p) : p \in Paths}

InitNull == InitEngine(Contexts)

NextNull == \E condition \in NullConditions : Evaluate(condition)

SpecNull == InitNull /\ [][NextNull]_vars

\* Conditional blocks alone
\* "{% if age >= 18 %}Adult{% else %}Minor{% endif %}"
TplAdult == TIf(CondAge) \o <<"Adult">> \o TElse \o <<"Minor">> \o TEndif

\* "{% if a %}X{% endif %}{% if b %}Y{% else %}Z{% endif %}"
TplTwoBlocks ==
    TIf(<<"a">>) \o <<"X">> \o TEndif \o TIf(<<"b">>) \o <<"Y">> \o TElse \o <<"Z">> \o TEndif

\* "{% if b %}Y{% else %}Z{% endif %}{% if a %}X{% endif %}"
TplTwoBlocksElseFirst ==
    TIf(<<"b">>) \o <<"Y">> \o TElse \o <<"Z">> \o TEndif \o TIf(<<"a">>) \o <<"X">> \o TEndif

CondTemplates ==
    {TplAdult, TplTwoBlocks, TplTwoBlocksElseFirst, TplIf(<<"a">>), TplIfElse(<<"b">>),
     TplIf(CondAge), TplIfElse(CondNoOperand), TplIfElse(CondAndOr)}

CtxAge(n) == DictV(<<"age">> :> IntV(n))

CondContexts ==
    {CtxEmpty, CtxAge(30), CtxAge(18), CtxAge(10), DictV(<<"age">> :> NoneV)}
    \cup {BoolContext(a, b, FALSE, FALSE) : a, b \in BOOLEAN}

InitCond == InitEngine(CondContexts)

NextCond == \E template \in CondTemplates : Render(template)

SpecCond == InitCond /\ [][NextCond]_vars

\* Conditions that fail
\* "a b", "a == b == c", "a )" and "a == b"
CondAdjacent == <<"a", " ", "b">>

CondChained == <<"a", " ", "=", "=", " ", "b", " ", "=", "=", " ", "c">>

CondUnmatched == <<"a", " ", ")">>

CondEq == <<"a", " ", "=", "=", " ", "b">>

LeftoverConditions == {CondAdjacent, CondChained, CondUnmatched, CondUnbalanced}

\* "x OP 5"
XCmp5(op) == <<"x", " ">> \o op \o <<" ", "5">>

OrderingOps == {<<"<">>, <<"<", "=">>, <<">">>, <<">", "=">>}

EqualityOps == {<<"=", "=">>, <<"!", "=">>}

\* "x == null OR x > 5", "false AND x > 5", "true OR x > 5"
CondNullOrGt == EqNull(<<"x">>) \o <<" ">> \o KwOr \o <<" ">> \o XCmp5(<<">">>)

CondFalseAndGt == CondFalse \o <<" ">> \o KwAnd \o <<" ">> \o XCmp5(<<">">>)

CondTrueOrGt == <<"t", "r", "u", "e", " ">> \o KwOr \o <<" ">> \o XCmp5(<<">">>)

BothOperandConditions == {CondNullOrGt, CondFalseAndGt, CondTrueOrGt}

FailConditions ==
    LeftoverConditions \cup {CondEq, CondAndOr, CondParen}
    \cup {XCmp5(op) : op \in OrderingOps \cup EqualityOps}
    \cup BothOperandConditions

CtxX(v) == DictV(<<"x">> :> v)

\* x absent, null, a string, below 5, above 5 (int and float), and booleans
FailContexts ==
    {CtxEmpty, CtxX(NoneV), CtxX(StrV(<<"s">>)), CtxX(IntV(3)), CtxX(IntV(7)),
     CtxX(FloatV(FALSE, <<"7">>, <<"5">>)),
     BoolContext(TRUE, TRUE, TRUE, FALSE), BoolContext(FALSE, TRUE, FALSE, FALSE)}

InitFail == InitEngine(FailContexts)

NextFail == \E condition \in FailConditions : Evaluate(condition)

SpecFail == InitFail /\ [][NextFail]_vars

\* The lexer alone
\* One character of each class the lexer tells apart: letter, whitespace,
\* digit, quote, and the operator characters, of which "<=" and "==" are
\* two-character operators, "<" is an operator alone and "=" is refused alone
LexChars == <<"a", " ", "1", "'", "<", "=">>

MaxTextLen == 3

RECURSIVE TextsOfLen(_)
TextsOfLen(n) ==
    IF n = 0 THEN {<<>>}
    ELSE {Append(t, LexChars[i]) : t \in TextsOfLen(n - 1), i \in 1..Len(LexChars)}

\* Texts with the characters that continue a number, an identifier or a
\* string, with parentheses and with other refused characters
LexExtras ==
    {<<"1", ".", "1">>, <<"1", ".">>, <<"1", ".", "1", ".", "1">>, <<".", "1">>,
     <<"a", ".", "a">>, <<"a", ".">>, <<"_", "a", "1">>,
     <<"'", "\\", "'", "'">>, <<"'", "\\", "'">>, <<"'", "a", "\\">>,
     <<"\"", "a", "'", "\"">>, <<"\\">>,
     <<"(", "a", ")">>, <<"(", " ", ")">>, <<"a", " ", "$">>, <<"$">>,
     <<"a", "!", "=", "1">>, <<"!">>, <<"a", ">", "=", "1">>, <<"a", ">", "1">>,
     <<"a", "\n", "a">>}

LexTexts == UNION {TextsOfLen(n) : n \in 0..MaxTextLen} \cup LexExtras

\* ConditionLexer(text).tokenize()
Tokenize(text) ==
    /\ calls < MaxCalls
    /\ LET r == tokenize(text) IN
       call' = [NoCall EXCEPT !.op = "tokenize", !.arg = text,
                              !.exc = IF r.err THEN "ConditionEvaluationError" ELSE "none",
                              !.val = [t |-> "list", items |-> r.tokens]]
    /\ calls' = calls + 1
    /\ UNCHANGED <<sections, stack, context, supplied, renders>>

InitLex == InitEngine({CtxEmpty})

NextLex == \E text \in LexTexts : Tokenize(text)

SpecLex == InitLex /\ [][NextLex]_vars

\* VariableResolver(strict).resolve alone, lenient and strict
\* balance is negative; the user's manager is null
CtxDebt ==
    DictV(<<"balance">> :> IntV(-7)
          @@ <<"user">> :> DictV(<<"name">> :> StrV(<<"John">>) @@ <<"manager">> :> NoneV))

ResolveContexts == {CtxEmpty, CtxUser, CtxFlags, CtxDebt}

ResolveNames ==
    Names \cup {<<>>, <<"x">>, <<"user">>, <<"user", ".", "missing">>,
                <<"user", ".", "manager">>, <<"user", ".", "manager", ".", "name">>,
                <<"name", ".", "nope">>, <<"age">>, <<"age", ".", "to", "_", "bytes">>,
                <<"balance">>, <<"balance", ".", "to", "_", "bytes">>}

\* VariableResolver(strict=True).resolve(name, context)
ResolveStrict(name) ==
    /\ calls < MaxCalls
    /\ LET r == resolve(name, context, TRUE) IN
       /\ context' = r.context
       /\ call' = [NoCall EXCEPT !.op = "resolve_strict", !.arg = name, !.exc = r.exc,
                                 !.val = r.val]
    /\ calls' = calls + 1
    /\ UNCHANGED <<sections, stack, supplied, renders>>

InitResolve == InitEngine(ResolveContexts)

NextResolve ==
    \/ \E name \in ResolveNames : Resolve(name)
    \/ \E name \in ResolveNames : ResolveStrict(name)

SpecResolve == InitResolve /\ [][NextResolve]_vars

\* Variable references in conditions, next to the resolver
RefNames == (ResolveNames \ {<<>>}) \cup {<<"items", ".", "copy">>}

RefConditions ==
    RefNames \cup {EqNull(p) : p \in RefNames} \cup {NeNull(p) : p \in RefNames}

InitRef == InitEngine(ResolveContexts)

NextRef ==
    \/ \E condition \in RefConditions : Evaluate(condition)
    \/ \E name \in RefNames : Resolve(name)

SpecRef == InitRef /\ [][NextRef]_vars

\* Values, conditionals and sections spliced into one another
\* "{{a}}"
TplTopRef == Var(<<"a">>)

\* "{% if a %}{{a}}{% endif %}"
TplIfRef == TIf(<<"a">>) \o Var(<<"a">>) \o TEndif

\* "{% section s %}{{a}}{% endsection %}{% include s %}"
TplSecRef == TSection("s", Var(<<"a">>)) \o TInclude("s")

\* "{% section s %}{{a}}{% endsection %}{% section o %}[{% include s %}]{% endsection %}{% include o %}"
TplDeepRef ==
    TSection("s", Var(<<"a">>)) \o TSection("o", <<"[">> \o TInclude("s") \o <<"]">>)
    \o TInclude("o")

RefTemplates == {TplTopRef, TplIfRef, TplSecRef, TplDeepRef}

\* "{% if on %}Y{% endif %}" and "{% if on %}Y{% else %}N{% endif %}"
IfOn == TIf(<<"on">>) \o <<"Y">> \o TEndif

IfElseOn == TIf(<<"on">>) \o <<"Y">> \o TElse \o <<"N">> \o TEndif

\* "{% section s %}{% if on %}Y{% endif %} {{b}}{% endsection %}{% include s %}"
TplIfInSection == TSection("s", IfOn \o <<" ">> \o Var(<<"b">>)) \o TInclude("s")

\* "{% section s %}{% if on %}Y{% else %}N{% endif %}{% endsection %}{% include s %}"
TplIfElseInSection == TSection("s", IfElseOn) \o TInclude("s")

\* "{% section s %}{% if on %}Y{% endif %}{% endsection %}{% if on %}T{% endif %}{% include s %}"
TplIfBoth == TSection("s", IfOn) \o TIf(<<"on">>) \o <<"T">> \o TEndif \o TInclude("s")

\* "{% if on %}{% section s %}S{% endsection %}{% endif %}{% include s %}"
TplSectionInIf == TIf(<<"on">>) \o TSection("s", <<"S">>) \o TEndif \o TInclude("s")

\* "{% if on %}{% section s %}S{% endsection %}A{% else %}B{% endif %} {% include s %}"
TplSectionInIfElse ==
    TIf(<<"on">>) \o TSection("s", <<"S">>) \o <<"A">> \o TElse \o <<"B">> \o TEndif
    \o <<" ">> \o TInclude("s")

SpliceTemplates ==
    RefTemplates \cup {TplIfInSection, TplIfElseInSection, TplIfBoth, TplSectionInIf,
                       TplSectionInIfElse}

\* The text of a reference to other
RefOther == Var(<<"other">>)

CtxSplice(a, other, on) ==
    DictV(<<"a">> :> StrV(a) @@ <<"other">> :> StrV(other) @@ <<"on">> :> BoolV(on)
          @@ <<"b">> :> StrV(<<"plain">>))

SpliceContexts ==
    {CtxSplice(a, other, on) : a \in {RefOther, <<"plain">>}, other \in {<<"X">>, <<"Z">>},
                               on \in BOOLEAN}

InitSplice == InitEngine(SpliceContexts)

NextSplice == \E template \in SpliceTemplates : Render(template)

SpecSplice == InitSplice /\ [][NextSplice]_vars

\* validate and render on one engine
\* "Hello {{name"
TplUnclosed == <<"Hello", " ", "{{", "name">>

\* "{% if a AND b OR c %}A"
TplUnclosedIf == TIf(CondAndOr) \o <<"A">>

\* "A %} {{name"
TplStray == <<"A", " ", "%}", " ", "{{", "name">>

\* "Hello {{name}}, {% if a AND b OR c %}World{% endif %}"
TplValid ==
    <<"Hello", " ">> \o Var(<<"name">>) \o <<",", " ">>
    \o TIf(CondAndOr) \o <<"World">> \o TEndif

ValidateTemplates ==
    {TplName, TplUnclosed, TplUnclosedIf, TplStray, TplValid, TplHeader, TplChain,
     TplCycle, TplMissing, TplIfElse(CondAndOr), TplTwoBlocks, TplTwoBlocksElseFirst}

\* engine.validate(template)
Validate(template) ==
    /\ calls < MaxCalls
    /\ call' = [NoCall EXCEPT !.op = "validate", !.arg = template,
                              !.val = validate(template, sections)]
    /\ calls' = calls + 1
    /\ UNCHANGED <<sections, stack, context, supplied, renders>>

\* engine.get_conditions(template)
GetConditions(template) ==
    /\ calls < MaxCalls
    /\ call' = [NoCall EXCEPT !.op = "get_conditions", !.arg = template,
                              !.val = [t |-> "list", items |-> get_conditions(template)]]
    /\ calls' = calls + 1
    /\ UNCHANGED <<sections, stack, context, supplied, renders>>

InitValidate == InitEngine({CtxJohn, CtxFlags})

NextValidate ==
    \/ \E template \in ValidateTemplates : Validate(template)
    \/ \E template \in ValidateTemplates : GetConditions(template)
    \/ \E template \in ValidateTemplates : Render(template)

SpecValidate == InitValidate /\ [][NextValidate]_vars

InitCoerce == InitEngine({CtxEmpty})

NextCoerce == \E i \in 1..Len(CoerceValues) : Coerce(CoerceValues[i])

SpecCoerce == InitCoerce /\ [][NextCoerce]_vars

\* ------------------------------------------------------------------------
\* Threads sharing one engine
\* ------------------------------------------------------------------------
\* render run by threads on one TemplateEngine: self._sections and
\* self._resolution_stack are fields of the engine, the template text is a
\* local of each call.  A thread switch is taken between the statements of
\* render; the schedules that also switch inside a pass are left out.
ConcTemplates == {TplName, TplHeader, TplChain, TplCycle}

ConcContexts == {CtxEmpty, CtxJohn}

\* The call of thread t moved to position pc with its local text
At(t, pc, text) == renders' = [renders EXCEPT ![t].pc = pc, ![t].text = text]

\* The call of thread t left by raising exc
Raised(t, exc, chain) ==
    renders' = [renders EXCEPT ![t].pc = "done", ![t].text = <<>>, ![t].exc = exc,
                               ![t].chain = chain]

\* A thread calls engine.render(template, context)
Start(t, template) ==
    /\ renders[t].pc \in {"idle", "done"}
    /\ calls < MaxCalls
    /\ calls' = calls + 1
    /\ renders' = [renders EXCEPT ![t] = [Idle EXCEPT !.pc = "reset_sections",
                                                       !.template = template,
                                                       !.text = template]]
    /\ UNCHANGED <<sections, stack, context, supplied, call>>

\* self._sections = {}
ResetSections(t) ==
    /\ renders[t].pc = "reset_sections"
    /\ sections' = EmptyDict
    /\ At(t, "reset_stack", renders[t].text)
    /\ UNCHANGED <<stack, context, supplied, call, calls>>

\* self._resolution_stack = set()
ResetStack(t) ==
    /\ renders[t].pc = "reset_stack"
    /\ stack' = {}
    /\ At(t, "parse_sections", renders[t].text)
    /\ UNCHANGED <<sections, context, supplied, call, calls>>

\* template = self._parse_sections(template)
ParseSections(t) ==
    /\ renders[t].pc = "parse_sections"
    /\ LET r == parse_sections(renders[t].text, sections) IN
       /\ sections' = r.sections
       /\ At(t, "conditionals_with_else", r.text)
    /\ UNCHANGED <<stack, context, supplied, call, calls>>

\* template = self._process_conditionals_with_else(template, context)
ConditionalsWithElse(t) ==
    /\ renders[t].pc = "conditionals_with_else"
    /\ At(t, "conditionals", process_conditionals_with_else(renders[t].text, context))
    /\ UNCHANGED <<sections, stack, context, supplied, call, calls>>

\* template = self._process_conditionals(template, context)
Conditionals(t) ==
    /\ renders[t].pc = "conditionals"
    /\ At(t, "includes", process_conditionals(renders[t].text, context))
    /\ UNCHANGED <<sections, stack, context, supplied, call, calls>>

\* template = self._process_includes(template, context)
Includes(t) ==
    /\ renders[t].pc = "includes"
    /\ LET r == process_includes(renders[t].text, sections, stack, context) IN
       /\ stack' = r.stack
       /\ context' = r.context
       /\ IF r.exc # "none" THEN Raised(t, r.exc, r.chain) ELSE At(t, "substitute", r.text)
    /\ UNCHANGED <<sections, supplied, call, calls>>

\* template = self._substitute_variables(template, context)
\* return template.strip()
Substitute(t) ==
    /\ renders[t].pc = "substitute"
    /\ LET r == substitute_variables(renders[t].text, context) IN
       /\ context' = r.context
       /\ IF r.exc # "none" THEN Raised(t, r.exc, {}) ELSE At(t, "done", Strip(r.text))
    /\ UNCHANGED <<sections, stack, supplied, call, calls>>

InitConc == InitEngine(ConcContexts)

NextConc ==
    \/ \E t \in Threads, template \in ConcTemplates : Start(t, template)
    \/ \E t \in Threads : ResetSections(t)
    \/ \E t \in Threads : ResetStack(t)
    \/ \E t \in Threads : ParseSections(t)
    \/ \E t \in Threads : ConditionalsWithElse(t)
    \/ \E t \in Threads : Conditionals(t)
    \/ \E t \in Threads : Includes(t)
    \/ \E t \in Threads : Substitute(t)

SpecConc == InitConc /\ [][NextConc]_vars

\* ------------------------------------------------------------------------
\* Properties
\* ------------------------------------------------------------------------
\* The boolean the context holds under a one-letter name
Flag(name) == context.d[<<name>>].b

\* The last call was evaluate(condition, context) and returned result
Evaluated(condition, result) ==
    call.op = "evaluate" /\ call.arg = condition /\ call.exc = "none"
    /\ call.result = result

\* The last call was render(template, context) and returned text
Rendered(template, text) ==
    call.op = "render" /\ call.arg = template /\ call.exc = "none" /\ call.text = text

\* C1: AND binds tighter than OR.  For every assignment of booleans,
\* evaluate("a AND b OR c") returns (a AND b) OR c, in either letter case,
\* and evaluate("a OR b AND c OR d") returns a OR (b AND c) OR d.
C1_AndBeforeOr ==
    call.op = "evaluate" =>
        /\ call.arg \in {CondAndOr, CondLower} =>
              Evaluated(call.arg, (Flag("a") /\ Flag("b")) \/ Flag("c"))
        /\ call.arg = CondOrAndOr =>
              Evaluated(CondOrAndOr, Flag("a") \/ (Flag("b") /\ Flag("c")) \/ Flag("d"))

\* C1 witness: a = false, b = true, c = true, where (a AND b) OR c is true
\* and a AND (b OR c) is false; evaluate returned true.
C1_Witness ==
    Evaluated(CondAndOr, TRUE) /\ ~Flag("a") /\ Flag("b") /\ Flag("c")

\* C2: NOT binds tighter than AND.  For every assignment of booleans,
\* evaluate("NOT a AND b") returns (NOT a) AND b.
C2_NotBeforeAnd ==
    (call.op = "evaluate" /\ call.arg = CondNotAnd) =>
        Evaluated(CondNotAnd, (~Flag("a")) /\ Flag("b"))

\* C2 witness: a = false, b = false, where (NOT a) AND b is false and
\* NOT (a AND b) is true; evaluate returned false.
C2_Witness == Evaluated(CondNotAnd, FALSE) /\ ~Flag("a") /\ ~Flag("b")

\* C3: parentheses override the precedence.  For every assignment of
\* booleans, evaluate("a AND (b OR c)") returns a AND (b OR c), and
\* evaluate("not (a or b) and c") returns (NOT (a OR b)) AND c; where
\* a = false, b = true, c = true the unparenthesised "a AND b OR c" is true.
C3_ParenthesesOverride ==
    call.op = "evaluate" =>
        /\ call.arg = CondParen =>
              /\ Evaluated(CondParen, Flag("a") /\ (Flag("b") \/ Flag("c")))
              /\ (~Flag("a") /\ Flag("b") /\ Flag("c")) =>
                    evaluate(CondAndOr, context) = [exc |-> "none", result |-> TRUE]
        /\ call.arg = CondNotParen =>
              Evaluated(CondNotParen, ~(Flag("a") \/ Flag("b")) /\ Flag("c"))

\* C3 witness: a = false, b = true, c = true; "a AND (b OR c)" returned
\* false.
C3_Witness ==
    Evaluated(CondParen, FALSE) /\ ~Flag("a") /\ Flag("b") /\ Flag("c")

\* "Hello John, ID [user_id]" and "Hello [name]"
TextHelloPlaceholder ==
    <<"Hello", " ", "John", ",", " ", "ID", " ">> \o Placeholder(<<"user", "_", "id">>)

TextNamePlaceholder == <<"Hello", " ">> \o Placeholder(<<"name">>)

\* C4: a reference whose path is absent from the context is rendered as
\* the placeholder [dotted.name]: "Hello {{name}}, ID {{user_id}}" with
\* {name: "John"} renders "Hello John, ID [user_id]", and "Hello {{name}}"
\* with an empty context renders "Hello [name]".
C4_MissingRendersPlaceholder ==
    call.op = "render" =>
        /\ (call.arg = TplHello /\ context = CtxJohn) =>
              Rendered(TplHello, TextHelloPlaceholder)
        /\ (call.arg = TplName /\ context = CtxEmpty) =>
              Rendered(TplName, TextNamePlaceholder)

\* C4 witness of the divergence: "Hello {{name}}, ID {{user_id}}" with
\* {name: "John"} rendered "Hello John, ID", without a placeholder.
C4_Witness ==
    /\ Rendered(TplHello, <<"Hello", " ", "John", ",", " ", "ID">>)
    /\ context = CtxJohn

\* The section names on the include cycle of a template
CycleOf(template) ==
    CASE template = TplCycle -> {<<"a">>, <<"b">>}
      [] template = TplSelf -> {<<"a">>}
      [] template = TplCycle3 -> {<<"a">>, <<"b">>, <<"c">>}
      [] OTHER -> {}

\* C5: a render that includes a section already on the resolution stack
\* raises CircularDependencyError instead of returning text, and the
\* error's dependency chain contains every section name of the cycle; a
\* render whose includes reach no cycle does not raise that error.
C5_CircularIncludeRaises ==
    call.op = "render" =>
        IF CycleOf(call.arg) # {}
        THEN /\ call.exc = "CircularDependencyError"
             /\ call.text = <<>>
             /\ CycleOf(call.arg) \subseteq call.chain
        ELSE call.exc # "CircularDependencyError"

\* C5 witness: sections a and b include each other; render raised and the
\* chain names both.
C5_Witness ==
    /\ call.op = "render" /\ call.arg = TplCycle
    /\ call.exc = "CircularDependencyError"
    /\ call.chain = {<<"a">>, <<"b">>}

\* C6: a conditional whose condition fails to lex, parse or evaluate never
\* makes render raise and is treated as false: "{% if C %}A{% endif %}Z"
\* renders "Z" and "{% if C %}A{% else %}B{% endif %}" renders "B"; the
\* same condition handed to evaluate raises ConditionEvaluationError.
C6_FailingConditionIsFalse ==
    \A c \in FailingConditions :
        evaluate(c, context).exc # "none" =>
            /\ (call.op = "render" /\ call.arg = TplIf(c)) => Rendered(TplIf(c), <<"Z">>)
            /\ (call.op = "render" /\ call.arg = TplIfElse(c)) =>
                  Rendered(TplIfElse(c), <<"B">>)
            /\ (call.op = "evaluate" /\ call.arg = c) =>
                  call.exc = "ConditionEvaluationError"

\* C6 witness of the divergence: the condition "a >" has no right operand;
\* the if/else template rendered the empty text.
C6_Witness == Rendered(TplIfElse(CondNoOperand), <<>>)

\* C7: a rendered {{name}} that resolves to a mapping makes render raise.
C7_MappingRaises ==
    (/\ call.op = "render" /\ call.arg = TplUser
     /\ resolve(<<"user">>, context, EngineStrict).val.t = "dict") =>
        call.exc # "none"

\* C7 witness of the divergence: "User {{user}}" with user a mapping
\* returned "User [user]".
C7_Witness ==
    /\ Rendered(TplUser, <<"User", " ">> \o Placeholder(<<"user">>))
    /\ context = CtxUser

\* C8: no section name is left on the resolution stack when a render call
\* has ended, whether it returned or raised.
C8_StackEmptyAfterRender == call.op = "render" => stack = {}

\* C8 witness of the divergence: render raised CircularDependencyError and
\* sections a and b are still on the stack.
C8_Witness ==
    /\ call.op = "render" /\ call.exc = "CircularDependencyError"
    /\ stack = {<<"a">>, <<"b">>}

\* What render(template, context) returns or raises when run alone
Alone(template) ==
    [exc |-> render(template, supplied).exc, text |-> render(template, supplied).text,
     chain |-> render(template, supplied).chain]

\* C9: render calls of two threads on one engine whose steps interleave
\* each return or raise exactly what they would when run alone.
C9_ThreadsIsolated ==
    \A t \in Threads :
        renders[t].pc = "done" =>
            [exc |-> renders[t].exc, text |-> renders[t].text, chain |-> renders[t].chain]
                = Alone(renders[t].template)

\* C9 witness of the divergence: a thread rendering the template whose
\* section a includes b got the missing-section text for a.
C9_Witness ==
    \E t \in Threads :
        /\ renders[t].pc = "done" /\ renders[t].template = TplChain
        /\ renders[t].text = MissingSection(<<"a">>) \o <<" ", "end">>

\* C10: after any sequence of render, evaluate and resolve calls the
\* context value tree equals the one that was supplied.
C10_ContextReadOnly == context = supplied

\* C10 witness of the divergence: "Last {{items.pop}}" rendered the last
\* item and the list in the context lost it.
C10_Witness ==
    /\ Rendered(TplPop, <<"Last", " ", "B">>)
    /\ supplied = CtxUser
    /\ context.d[<<"items">>] = ListV(<<StrV(<<"A">>), NoneV>>)

\* The call was _to_safe_string(value) and it returned text
Coerced(value, text) ==
    /\ call.op = "to_safe_string" /\ call.val = value
    /\ call.exc = "none" /\ call.text = text

AllDigits(ds) == ds # <<>> /\ \A i \in 1..Len(ds) : IsDigit(ds[i])

NotANumber == [neg |-> FALSE, whole |-> <<>>, frac |-> <<>>]

\* The number a base-ten numeral denotes: an optional "-", digits, an
\* optional "." with digits after it, and an optional exponent e+dd or
\* e-dd that moves the point; NotANumber for any other text
DecimalValue(text) ==
    LET neg == text # <<>> /\ text[1] = "-"
        body == IF neg THEN Tail(text) ELSE text
        es == {i \in 1..Len(body) : body[i] = "e"}
        e == IF es = {} THEN Len(body) + 1 ELSE CHOOSE i \in es : TRUE
        mant == SubSeq(body, 1, e - 1)
        expo == SubSeq(body, e + 2, Len(body))
        dots == {i \in 1..Len(mant) : mant[i] = "."}
        dot == IF dots = {} THEN Len(mant) + 1 ELSE CHOOSE i \in dots : TRUE
        whole == SubSeq(mant, 1, dot - 1)
        frac == SubSeq(mant, dot + 1, Len(mant))
        wellformed ==
            /\ Cardinality(es) <= 1 /\ Cardinality(dots) <= 1
            /\ AllDigits(whole)
            /\ dots # {} => AllDigits(frac)
            /\ es # {} => e < Len(body) /\ body[e + 1] \in {"+", "-"} /\ AllDigits(expo)
        n == IF es = {} THEN 0 ELSE DigitsToInt(expo)
        all == Zeros(n) \o whole \o frac \o Zeros(n)
        point == n + Len(whole) + (IF es # {} /\ body[e + 1] = "-" THEN -n ELSE n)
        shifted == DropLeadingZeros(SubSeq(all, 1, point))
    IN IF ~wellformed THEN NotANumber
       ELSE [neg |-> neg,
             whole |-> IF shifted = <<>> THEN <<"0">> ELSE shifted,
             frac |-> DropTrailingZeros(SubSeq(all, point + 1, Len(all)))]

\* text is s without the whitespace at its two ends
IsStripped(text, s) ==
    /\ text = <<>> \/ (~IsSpace(text[1]) /\ ~IsSpace(text[Len(text)]))
    /\ \E i \in 0..Len(s) :
          /\ i + Len(text) <= Len(s)
          /\ SubSeq(s, i + 1, i + Len(text)) = text
          /\ \A j \in (1..i) \cup ((i + Len(text) + 1)..Len(s)) : IsSpace(s[j])

\* The display string the coercion rules give a value that is not a sequence
ScalarRule(v, text) ==
    CASE v.t = "none" -> text = <<>>
      [] v.t = "bool" -> text = (IF v.b THEN <<"Yes">> ELSE <<"No">>)
      [] v.t = "str" -> IsStripped(text, v.s)
      [] v.t \in {"int", "float"} -> DecimalValue(text) = NumOf(v)
      [] OTHER -> FALSE

\* The display string the rules give a list of two such values
PairRule(a, b, text) ==
    IF a.t = "none" /\ b.t = "none" THEN text = <<>>
    ELSE IF a.t = "none" THEN ScalarRule(b, text)
    ELSE IF b.t = "none" THEN ScalarRule(a, text)
    ELSE \E i \in 0..(Len(text) - 2) :
           /\ SubSeq(text, i + 1, i + 2) = <<",", " ">>
           /\ ScalarRule(a, SubSeq(text, 1, i))
           /\ ScalarRule(b, SubSeq(text, i + 3, Len(text)))

IsScalar(v) == v.t \in {"none", "bool", "int", "float", "str"}

\* C11: coercion gives "" for null, "Yes"/"No" for a boolean, the stripped
\* string for a string, a base-ten numeral of the same value for an integer
\* or a float, and for a list the coerced non-null elements joined with
\* ", ": ("Apple","Orange","Banana") gives "Apple, Orange, Banana" and
\* ["A", null, "B"] gives "A, B".
C11_CoercionRules ==
    call.op = "to_safe_string" =>
        /\ IsScalar(call.val) => call.exc = "none" /\ ScalarRule(call.val, call.text)
        /\ (/\ call.val.t = "list" /\ Len(call.val.items) = 2
            /\ \A i \in 1..2 : IsScalar(call.val.items[i]))
              => call.exc = "none"
                 /\ PairRule(call.val.items[1], call.val.items[2], call.text)
        /\ call.val = Fruits
              => Coerced(Fruits, <<"Apple", ",", " ", "Orange", ",", " ", "Banana">>)
        /\ call.val = ListANoneB => Coerced(ListANoneB, <<"A", ",", " ", "B">>)
        /\ call.val = ListV(<<>>) => Coerced(ListV(<<>>), <<>>)

\* C11 witness: [" John ", null] was coerced to "John".
C11_Witness == Coerced(ListV(<<StrV(<<" ", "John", " ">>), NoneV>>), <<"John">>)

RECURSIVE ContainsMapping(_)
ContainsMapping(v) ==
    CASE v.t = "dict" -> TRUE
      [] v.t = "list" -> \E i \in 1..Len(v.items) : ContainsMapping(v.items[i])
      [] OTHER -> FALSE

\* C12 as stated: coercion raises for a mapping, with a
\* VariableResolutionError, and for no other value.
C12_OnlyMappingRaises ==
    call.op = "to_safe_string" =>
        /\ call.exc \in {"none", "VariableResolutionError"}
        /\ call.exc # "none" <=> call.val.t = "dict"

\* C12: coercion returns a string for every null, boolean, integer, float
\* and string and every sequence built from them; it raises exactly for a
\* mapping and for a sequence holding a mapping at some depth, and then
\* with a VariableResolutionError.
C12_MappingInsideRaises ==
    call.op = "to_safe_string" =>
        /\ call.exc \in {"none", "VariableResolutionError"}
        /\ call.exc # "none" <=> ContainsMapping(call.val)

\* C12 witness: ["A", {"k": 1}], a sequence and not a mapping, raised
\* VariableResolutionError.
C12_Witness ==
    /\ call.op = "to_safe_string" /\ call.val = ListV(<<Str("A"), Mapping>>)
    /\ call.exc = "VariableResolutionError"

\* text ends with tail
EndsWith(text, tail) ==
    Len(tail) <= Len(text) /\ SubSeq(text, Len(text) - Len(tail) + 1, Len(text)) = tail

\* C13: an include of a name with no section is replaced by
\* "[MISSING SECTION: NAME]" and render does not raise, at the top level
\* ("{% include nope %}", the footer after a defined header) and inside the
\* body of a section being expanded.
C13_MissingSectionPlaceholder ==
    call.op = "render" =>
        /\ call.arg = TplMissing => Rendered(TplMissing, MissingSection(<<"nope">>))
        /\ call.arg = TplHeader
              => call.exc = "none" /\ EndsWith(call.text, MissingSection(<<"footer">>))
        /\ call.arg = TplMissingInner
              => Rendered(TplMissingInner,
                          <<"X", " ">> \o MissingSection(<<"nope">>) \o <<" ", "end">>)

\* C13 witness: the template whose section a includes the undefined nope
\* rendered "X [MISSING SECTION: nope] end".
C13_Witness ==
    Rendered(TplMissingInner,
             <<"X", " ", "[", "MISSING", " ", "SECTION", ":", " ", "nope", "]", " ", "end">>)

\* The names of the sections a template defines
DefinedSections(template) ==
    {Group(template, m, 1) : m \in {FindAll(SECTION_PATTERN, template, 0)[i] :
                                      i \in 1..Len(FindAll(SECTION_PATTERN, template, 0))}}

Validated(template) == call.op = "validate" /\ call.arg = template

\* C14: validate(template) reports in 'sections' the names of the sections
\* the template passed to it defines, whatever calls came before.
C14_ValidateReportsOwnSections ==
    call.op = "validate" => call.val.sections = DefinedSections(call.arg)

\* C14 witness of the divergence: after a render of the template defining
\* a and b, validate("Hello {{name}}") reported the sections a and b.
C14_Witness ==
    /\ Validated(TplName)
    /\ DefinedSections(TplName) = {}
    /\ call.val.sections = {<<"a">>, <<"b">>}

\* C14 second witness: first call on the engine, validate of the template
\* defining header reported no section.
C14_FreshWitness ==
    /\ Validated(TplHeader) /\ calls = 1
    /\ DefinedSections(TplHeader) = {<<"header">>}
    /\ call.val.sections = {}

\* C15: validate does not raise; valid is true exactly when the error list
\* is empty, which is exactly when "{%" and "%}" are equally many and "{{"
\* and "}}" are equally many; "Hello {{name" is invalid with errors and
\* "Hello {{name}}" is valid with variables = ["name"].
C15_ValidIffBalanced ==
    call.op = "validate" =>
        /\ call.exc = "none"
        /\ call.val.valid <=> call.val.errors = <<>>
        /\ call.val.errors = <<>>
              <=> (/\ Count(call.arg, "{%") = Count(call.arg, "%}")
                   /\ Count(call.arg, "{{") = Count(call.arg, "}}"))
        /\ call.arg = TplUnclosed => ~call.val.valid /\ call.val.errors # <<>>
        /\ call.arg = TplName => call.val.valid /\ call.val.variables = <<<<"name">>>>

\* C15 witness: validate("Hello {{name") reported invalid with one error.
C15_Witness ==
    /\ Validated(TplUnclosed)
    /\ ~call.val.valid
    /\ call.val.errors = <<"Unclosed variable tags detected">>

\* C16: a render on an engine that served other calls before returns or
\* raises what the same render does on an engine just constructed, so the
\* sections and the resolution stack earlier renders left, a raising one
\* included, have no effect.
C16_RenderCallScoped ==
    [][call'.op = "render" /\ calls' = calls + 1
         => LET fresh == render(call'.arg, context) IN
            /\ call'.exc = fresh.exc
            /\ call'.text = fresh.text
            /\ call'.chain = fresh.chain
            /\ sections' = fresh.sections]_vars

\* C16 witness: the second render on the engine was of the template whose
\* section a includes b, and it returned "A B end" with a and b as the
\* only sections.
C16_Witness ==
    /\ calls = 2
    /\ Rendered(TplChain, <<"A", " ", "B", " ", "end">>)
    /\ DOMAIN sections = {<<"a">>, <<"b">>}

\* The dotted path leads through the keys of nested mappings to a value
RECURSIVE HasPath(_, _)
HasPath(v, path) ==
    \/ path = <<>>
    \/ /\ v.t = "dict"
       /\ <<Head(path)>> \in DOMAIN v.d
       /\ HasPath(v.d[<<Head(path)>>], IF Len(path) = 1 THEN <<>> ELSE SubSeq(path, 3, Len(path)))

\* The path's parent is the context or a mapping in it; only its last key
\* is missing
KeyMissing(v, path) ==
    /\ ~HasPath(v, path)
    /\ Len(path) = 1 \/ HasPath(v, SubSeq(path, 1, Len(path) - 2))

\* C17: in a condition a reference to a path that is absent from the
\* context is null: the bare reference evaluates to false, "path == null"
\* to true and "path != null" to false, without raising, for a missing
\* top-level key and for a missing nested key.
C17_MissingVariableIsNull ==
    \A path \in Paths :
        (call.op = "evaluate" /\ ~HasPath(context, path)) =>
            /\ call.arg = path => Evaluated(path, FALSE)
            /\ call.arg = EqNull(path) => Evaluated(EqNull(path), TRUE)
            /\ call.arg = NeNull(path) => Evaluated(NeNull(path), FALSE)

\* C17 witness: with user = {"name": "John"} in the context,
\* "user.missing == null" evaluated to true.
C17_Witness ==
    /\ context = CtxUser
    /\ KeyMissing(context, <<"user", ".", "missing">>)
    /\ Evaluated(EqNull(<<"user", ".", "missing">>), TRUE)

\* The parts are keys that lead from v through nested mappings to a value
RECURSIVE HasKeys(_, _)
HasKeys(v, parts) ==
    \/ parts = <<>>
    \/ v.t = "dict" /\ Head(parts) \in DOMAIN v.d /\ HasKeys(v.d[Head(parts)], Tail(parts))

\* Some part names an attribute the values of the model have
NamesAttr(parts) == \E i \in 1..Len(parts) : parts[i] \in ListAttrs \cup IntAttrs

\* A tree of mappings with null, booleans, numbers and strings at the leaves
RECURSIVE NestedMappings(_)
NestedMappings(v) ==
    CASE v.t = "dict" -> \A k \in DOMAIN v.d : NestedMappings(v.d[k])
      [] v.t = "list" -> FALSE
      [] OTHER -> TRUE

\* C18: when the walk meets a missing key, a missing attribute or a null
\* before the last segment, resolve returns null in lenient mode and raises
\* VariableResolutionError in strict mode; and in lenient mode resolve does
\* not raise for a non-empty name over a context of nested mappings.
C18_ResolveLenientAndStrict ==
    /\ (/\ call.op \in {"resolve", "resolve_strict"} /\ call.arg # <<>>
        /\ ~HasKeys(supplied, SplitDot(call.arg)) /\ ~NamesAttr(SplitDot(call.arg)))
          => IF call.op = "resolve" THEN call.exc = "none" /\ call.val = NoneV
             ELSE call.exc = "VariableResolutionError"
    /\ (call.op = "resolve" /\ call.arg # <<>> /\ NestedMappings(supplied))
          => call.exc = "none"

\* C18 witness of the divergence: over {"balance": -7, "user": {...}} the
\* lenient resolve("balance.to_bytes") raised OverflowError.
C18_Witness ==
    /\ supplied = CtxDebt /\ NestedMappings(supplied)
    /\ call.op = "resolve" /\ call.arg = <<"balance", ".", "to", "_", "bytes">>
    /\ call.exc = "OverflowError"

\* C18 second witness: with the user's manager null, the strict
\* resolve("user.manager.name") raised VariableResolutionError and the
\* lenient one returned null.
C18_NullMidPath ==
    /\ supplied = CtxDebt /\ call.arg = <<"user", ".", "manager", ".", "name">>
    /\ \/ call.op = "resolve_strict" /\ call.exc = "VariableResolutionError"
       \/ call.op = "resolve" /\ call.exc = "none" /\ call.val = NoneV

\* C19: an if/else block whose condition fails to evaluate is replaced by
\* its else branch, as when the condition is false:
\* "{% if age >= 18 %}Adult{% else %}Minor{% endif %}" renders "Minor"
\* when age is absent or not a number, and when age is below 18.
C19_FailingConditionTakesElse ==
    (call.op = "render" /\ call.arg = TplAdult) =>
        LET r == evaluate(CondAge, context) IN
        (r.exc # "none" \/ ~r.result) => Rendered(TplAdult, <<"Minor">>)

\* C19 witness of the divergence: with no age in the context the block
\* rendered the empty text and not "Minor".
C19_Witness ==
    /\ context = CtxEmpty
    /\ evaluate(CondAge, context).exc = "ConditionEvaluationError"
    /\ Rendered(TplAdult, <<>>)

\* C20: "{% if a %}X{% endif %}{% if b %}Y{% else %}Z{% endif %}" renders
\* X when a, nothing otherwise, followed by Y when b and Z otherwise; no
\* directive tag is left in the output.
C20_BlocksResolvedSeparately ==
    (/\ call.op = "render" /\ call.arg = TplTwoBlocks
     /\ <<"a">> \in DOMAIN context.d /\ <<"b">> \in DOMAIN context.d) =>
        /\ Rendered(TplTwoBlocks,
                    (IF Flag("a") THEN <<"X">> ELSE <<>>)
                    \o (IF Flag("b") THEN <<"Y">> ELSE <<"Z">>))
        /\ \A i \in 1..Len(call.text) : call.text[i] \notin {"{%", "%}"}

\* C20 witness of the divergence: with a and b true the render returned
\* "X{% endif %}{% if b %}Y".
C20_Witness ==
    /\ <<"a">> \in DOMAIN context.d /\ Flag("a") /\ Flag("b")
    /\ Rendered(TplTwoBlocks, <<"X">> \o TEndif \o TIf(<<"b">>) \o <<"Y">>)

\* The conditions of the conditional directives of a template, in template
\* order: the texts between "{% if " and " %}"
RECURSIVE DirectiveConditions(_, _)
DirectiveConditions(template, i) ==
    IF i + 3 > Len(template) THEN <<>>
    ELSE IF SubSeq(template, i, i + 3) = <<"{%", " ", "if", " ">>
    THEN LET close == CHOOSE j \in (i + 4)..Len(template) :
                          /\ template[j] = "%}"
                          /\ \A k \in (i + 4)..(j - 1) : template[k] # "%}"
         IN <<SubSeq(template, i + 4, close - 2)>> \o DirectiveConditions(template, close + 1)
    ELSE DirectiveConditions(template, i + 1)

\* Every "{% if" of the template has its "{% endif %}"
Closed(template) == Count(template, "if") = Count(template, "endif")

\* C21: get_conditions returns the condition of every conditional
\* directive of the template, with or without else, one entry per
\* directive in template order.
C21_ConditionsInTemplateOrder ==
    (call.op = "get_conditions" /\ Closed(call.arg)) =>
        call.val.items = DirectiveConditions(call.arg, 1)

\* C21 witness of the divergence: for
\* "{% if a %}X{% endif %}{% if b %}Y{% else %}Z{% endif %}" the list
\* returned was a, b, a.
C21_Witness ==
    /\ call.op = "get_conditions" /\ call.arg = TplTwoBlocks
    /\ DirectiveConditions(TplTwoBlocks, 1) = << <<"a">>, <<"b">> >>
    /\ call.val.items = << <<"a">>, <<"b">>, <<"a">> >>

\* The templates in which an included section reaches itself
CyclicTemplates == {TplCycle, TplSelf, TplCycle3}

\* C22: a circular-dependency error is raised only for a real cycle: a
\* section included twice in sequence and a section reached through two
\* parents render normally, the stack is empty after a render that
\* returns, and only the templates with a cycle raise.
C22_OnlyRealCyclesRaise ==
    call.op = "render" =>
        /\ call.arg = TplTwice => Rendered(TplTwice, <<"A", " ", "A">>)
        /\ call.arg = TplDiamond
              => Rendered(TplDiamond, <<"L", " ", "D", " ", "R", " ", "D">>)
        /\ call.exc = "CircularDependencyError" => call.arg \in CyclicTemplates
        /\ call.exc = "none" => stack = {}

\* C22 witness: the diamond rendered "L D R D" and left the stack empty.
C22_Witness ==
    /\ Rendered(TplDiamond, <<"L", " ", "D", " ", "R", " ", "D">>)
    /\ stack = {}

\* The value the context holds under x, null when it holds none
XValue == IF <<"x">> \in DOMAIN context.d THEN context.d[<<"x">>] ELSE NoneV

\* C23: evaluate returns only when the or_expr parsed ends at the single
\* end-of-input token; "a b", "a == b == c", "a )" and "(a AND b" raise
\* ConditionEvaluationError in every context.
C23_LeftoverTokenRaises ==
    call.op = "evaluate" =>
        /\ call.arg \in LeftoverConditions => call.exc = "ConditionEvaluationError"
        /\ call.exc = "none" =>
              LET tokens == tokenize(Strip(call.arg)).tokens IN
              /\ parse_or(tokens, 0, context).pos = Len(tokens) - 1
              /\ \A i \in 1..Len(tokens) : tokens[i].type = "EOF" <=> i = Len(tokens)

\* C23 witness: "a == b == c" raised ConditionEvaluationError with a, b
\* and c true.
C23_Witness ==
    /\ context = BoolContext(TRUE, TRUE, TRUE, FALSE)
    /\ call.op = "evaluate" /\ call.arg = CondChained
    /\ call.exc = "ConditionEvaluationError"

\* C24: <, <=, >, >= between 5 and an x that is null (absent or present)
\* or a string raise ConditionEvaluationError and nothing else; == and !=
\* on the same operands return a boolean.
C24_UnorderableRaises ==
    (call.op = "evaluate" /\ XValue.t \in {"none", "str"}) =>
        /\ \A op \in OrderingOps :
              call.arg = XCmp5(op) => call.exc = "ConditionEvaluationError"
        /\ call.arg = XCmp5(<<"=", "=">>) => Evaluated(XCmp5(<<"=", "=">>), FALSE)
        /\ call.arg = XCmp5(<<"!", "=">>) => Evaluated(XCmp5(<<"!", "=">>), TRUE)

\* C24 witness: "x >= 5" with x the string "s" raised
\* ConditionEvaluationError.
C24_Witness ==
    /\ context = CtxX(StrV(<<"s">>))
    /\ call.op = "evaluate" /\ call.arg = XCmp5(<<">", "=">>)
    /\ call.exc = "ConditionEvaluationError"

\* C28: AND and OR evaluate both operands: when "x > 5" fails in the
\* context, "x == null OR x > 5", "false AND x > 5" and "true OR x > 5"
\* raise ConditionEvaluationError although the left operand decides.
C28_BothOperandsEvaluated ==
    (/\ call.op = "evaluate" /\ call.arg \in BothOperandConditions
     /\ evaluate(XCmp5(<<">">>), context).exc # "none") =>
        call.exc = "ConditionEvaluationError"

\* C28 witness: with x absent, "x == null OR x > 5" raised
\* ConditionEvaluationError.
C28_Witness ==
    /\ context = CtxEmpty
    /\ evaluate(EqNull(<<"x">>), context).result
    /\ call.op = "evaluate" /\ call.arg = CondNullOrGt
    /\ call.exc = "ConditionEvaluationError"

\* C25: a tokenize that does not raise returns tokens of which the last,
\* and only the last, is end-of-input; from every position get_next_token
\* raises, returns end-of-input or moves forward; no token starts at a
\* whitespace character.
C25_TokensEndInOneEof ==
    call.op = "tokenize" =>
        LET text == call.arg
            tokens == call.val.items
        IN /\ call.exc = "none" =>
                /\ tokens # <<>>
                /\ \A i \in 1..Len(tokens) : tokens[i].type = "EOF" <=> i = Len(tokens)
                /\ \A i \in 1..(Len(tokens) - 1) :
                      /\ tokens[i].position < Len(text)
                      /\ ~IsSpace(text[tokens[i].position + 1])
           /\ \A pos \in 0..Len(text) :
                \/ get_next_token(text, pos).err
                \/ get_next_token(text, pos).tok.type = "EOF"
                \/ get_next_token(text, pos).pos > pos

\* C25 witness: " a " gave the variable a and end-of-input.
C25_Witness ==
    /\ call.op = "tokenize" /\ call.arg = <<" ", "a", " ">> /\ call.exc = "none"
    /\ Len(call.val.items) = 2
    /\ call.val.items[1].type = "VARIABLE" /\ call.val.items[2].type = "EOF"

\* The value VariableResolver(strict=False).resolve gives for a name in the
\* context of the state
Resolved(name) == resolve(name, context, FALSE)

\* C26: a condition that is a variable reference, alone or compared with
\* null, has the result that the value resolved by the lenient
\* VariableResolver for the same name and context gives.
C26_ConditionResolvesLikeResolver ==
    call.op = "evaluate" /\ call.exc = "none" =>
        \A name \in RefNames :
            Resolved(name).exc = "none" =>
                /\ call.arg = name => call.result = Truthy(Resolved(name).val)
                /\ call.arg = EqNull(name) => call.result = (Resolved(name).val = NoneV)
                /\ call.arg = NeNull(name) => call.result = (Resolved(name).val # NoneV)

\* C26 witness: "items.copy" was evaluated where items is the empty list,
\* whose copy is empty and falsy.
C26_Witness ==
    /\ call.op = "evaluate" /\ call.arg = <<"items", ".", "copy">> /\ call.exc = "none"
    /\ <<"items">> \in DOMAIN context.d /\ context.d[<<"items">>] = ListV(<<>>)
    /\ Resolved(call.arg).val = ListV(<<>>)

\* text contains part as a contiguous run
HasInfix(text, part) ==
    \E i \in 0..(Len(text) - Len(part)) : SubSeq(text, i + 1, i + Len(part)) = part

\* C27: where the value of a is the text "{{other}}", a render of a
\* template that refers to a, at the top level, in a conditional branch, in
\* an included section or in a section included by a section, returns that
\* text literally and never the value of other.
C27_InsertedTextNotRescanned ==
    (/\ call.op = "render" /\ call.arg \in RefTemplates
     /\ context.d[<<"a">>] = StrV(RefOther))
        => /\ call.exc = "none"
           /\ HasInfix(call.text, RefOther)
           /\ ~HasInfix(call.text, context.d[<<"other">>].s)

\* C27 witness: "{{a}}" in an included section was rendered where a is
\* "{{other}}" and other is "X".
C27_Witness ==
    /\ call.op = "render" /\ call.arg = TplSecRef /\ call.exc = "none"
    /\ context.d[<<"a">>] = StrV(RefOther) /\ context.d[<<"other">>] = StrV(<<"X">>)

\* The value of on in the context
On == context.d[<<"on">>].b

\* C29: a conditional block in the body of a section is not evaluated when
\* the section is included: it is in the output as written, whatever the
\* condition, with the references of the body substituted, while a block of
\* the top-level text is resolved; a section defined inside a conditional
\* block is defined, and its include expands, when the condition is false.
C29_ConditionalsOnlyAtTopLevel ==
    call.op = "render" =>
        /\ call.arg = TplIfInSection
              => Rendered(TplIfInSection, IfOn \o <<" ", "plain">>)
        /\ call.arg = TplIfElseInSection => Rendered(TplIfElseInSection, IfElseOn)
        /\ call.arg = TplIfBoth
              => Rendered(TplIfBoth, (IF On THEN <<"T">> ELSE <<>>) \o IfOn)
        /\ call.arg = TplSectionInIf
              => Rendered(TplSectionInIf, <<"S">>) /\ <<"s">> \in DOMAIN sections
        /\ call.arg = TplSectionInIfElse
              => /\ Rendered(TplSectionInIfElse,
                             (IF On THEN <<"A">> ELSE <<"B">>) \o <<" ", "S">>)
                 /\ <<"s">> \in DOMAIN sections

\* C29 witness: the section holding a block on a true condition was
\* included and the block is in the output as written.
C29_Witness ==
    On /\ Rendered(TplIfInSection, IfOn \o <<" ", "plain">>)

\* C29 witness for the section defined under a false condition
C29_FalseWitness ==
    ~On /\ Rendered(TplSectionInIf, <<"S">>) /\ <<"s">> \in DOMAIN sections

\* The greatest member of a non-empty set of numbers
SetMax(S) == CHOOSE d \in S : \A e \in S : e <= d

\* The names of the includes of a text that include_handler expands: those
\* of defined sections that are not on the stack
Expanded(text, defined, names) ==
    {Group(text, m, 1) : m \in {FindAll(INCLUDE_PATTERN, text, 0)[i] :
                                  i \in 1..Len(FindAll(INCLUDE_PATTERN, text, 0))}}
    \cap (DOMAIN defined \ names)

\* The number of names on the resolution stack at the deepest point of the
\* expansion of the includes of text, names being on the stack already
RECURSIVE IncludeDepth(_, _, _)
IncludeDepth(text, defined, names) ==
    IF Expanded(text, defined, names) = {} THEN Cardinality(names)
    ELSE SetMax({IncludeDepth(defined[n], defined, names \cup {n}) :
                    n \in Expanded(text, defined, names)})

\* C30: after a render the resolution stack holds names of defined
\* sections only, the expansion of the includes never has more names on the
\* stack than the template defines sections, and the render has returned a
\* string or raised CircularDependencyError.
C30_IncludeExpansionTerminates ==
    call.op = "render" =>
        /\ stack \subseteq DOMAIN sections
        /\ IncludeDepth(parse_sections(call.arg, EmptyDict).text, sections, {})
              <= Cardinality(DOMAIN sections)
        /\ call.exc \in {"none", "CircularDependencyError"}

\* C30 witness: the include of a section whose body refers to items.pop
\* was expanded, one name deep, where items is the empty list, and the
\* render raised IndexError.
C30_Witness ==
    /\ call.op = "render" /\ call.arg = TplPopInSection
    /\ context = CtxFlags /\ call.exc = "IndexError"
    /\ IncludeDepth(parse_sections(call.arg, EmptyDict).text, sections, {}) = 1

\* What holds of C30: the bound on the stack and on the depth, in every
\* render, and a chain of three sections reaches depth three.
IncludeDepthBounded ==
    call.op = "render" =>
        /\ stack \subseteq DOMAIN sections
        /\ IncludeDepth(parse_sections(call.arg, EmptyDict).text, sections, {})
              <= Cardinality(DOMAIN sections)
        /\ call.arg = TplDiamond
              => IncludeDepth(parse_sections(call.arg, EmptyDict).text, sections, {}) = 3

====
